---- MODULE Spec2Model ----
(***************************************************************************)
(* KantoCollectInventoryTracker: the CSV ingestion pipeline                *)
(* (app/services/ingestion.py), the row schema (app/schemas.py) and the    *)
(* transactions table (app/models.py).                                     *)
(*                                                                         *)
(* Text is modelled as a sequence of one-character strings, so that the    *)
(* regular expressions and the parsers of the source are computed          *)
(* character by character.                                                 *)
(***************************************************************************)
EXTENDS Integers, Sequences, FiniteSets, TLC

VARIABLES
    title,          \* SpecMultiplier: the listing title under test
    extracted,      \* SpecMultiplier: what _extract_quantity_multiplier found
    fs,             \* the file system: path -> the lines of the CSV file (rows of CsvRows)
    db,             \* the committed rows of the transactions table, in insertion order
    last,           \* Spec: the last ingest_csv_files call and its outcome
    nonSalesUsed,   \* Spec: whether any call so far had include_non_sales = True
    sess,           \* SpecConcurrent: worker -> its session and its position in the call
    images,         \* the rows of the product_images table (curated metadata)
    allocations,    \* the rows of the allocations table, in insertion order
    reply           \* the result of the last report, admin request or allocation call

vars == <<title, extracted, fs, db, last, nonSalesUsed, sess, images, allocations, reply>>

(***************************************************************************)
(* Characters and strings                                                  *)
(***************************************************************************)
Digits == <<"0", "1", "2", "3", "4", "5", "6", "7", "8", "9">>

UpperChars == <<"A", "B", "C", "D", "E", "F", "G", "H", "I", "J", "K", "L", "M",
                "N", "O", "P", "Q", "R", "S", "T", "U", "V", "W", "X", "Y", "Z">>

LowerChars == <<"a", "b", "c", "d", "e", "f", "g", "h", "i", "j", "k", "l", "m",
                "n", "o", "p", "q", "r", "s", "t", "u", "v", "w", "x", "y", "z">>

Range(s) == {s[i] : i \in DOMAIN s}

DigitChars == Range(Digits)

UpperSet == Range(UpperChars)

\* the word characters of the model's alphabet; the accented letter is one too
WordChars == Range(Digits) \cup Range(UpperChars) \cup Range(LowerChars) \cup {"_", "é"}

\* \d of the re module
IsDigit(c) == c \in DigitChars

\* \w of the re module
IsWordChar(c) == c \in WordChars

\* \s of the re module, and the characters str.strip() and str.split() drop
IsSpace(c) == c \in {" ", "\t"}

DigitValue(c) == (CHOOSE i \in DOMAIN Digits : Digits[i] = c) - 1

\* str.lower() on one character
LowerChar(c) ==
    IF c \in UpperSet
    THEN LowerChars[CHOOSE i \in DOMAIN UpperChars : UpperChars[i] = c]
    ELSE c

\* str.lower()
Lower(s) == [i \in DOMAIN s |-> LowerChar(s[i])]

\* int() of a run of decimal digits s[i..j]
RECURSIVE DigitsToInt(_, _, _)
DigitsToInt(s, i, j) ==
    IF j < i THEN 0 ELSE 10 * DigitsToInt(s, i, j - 1) + DigitValue(s[j])

\* the literal w stands at position i of s
HasAt(s, i, w) ==
    /\ i >= 1
    /\ i + Len(w) - 1 <= Len(s)
    /\ \A k \in 1..Len(w) : s[i + k - 1] = w[k]

\* the `in` operator on strings
Contains(s, w) == \E i \in 1..(Len(s) + 1) : HasAt(s, i, w)

\* \b of the re module at the gap before position i (1 .. Len(s) + 1)
WordBoundary(s, i) ==
    LET before == i > 1 /\ i - 1 <= Len(s) /\ IsWordChar(s[i - 1])
        after  == i >= 1 /\ i <= Len(s) /\ IsWordChar(s[i])
    IN  before # after

\* the position after the longest run of digits that starts at i (i itself when none)
RECURSIVE SkipDigits(_, _)
SkipDigits(s, i) ==
    IF i <= Len(s) /\ IsDigit(s[i]) THEN SkipDigits(s, i + 1) ELSE i

\* the position after the longest run of whitespace that starts at i
RECURSIVE SkipSpaces(_, _)
SkipSpaces(s, i) ==
    IF i <= Len(s) /\ IsSpace(s[i]) THEN SkipSpaces(s, i + 1) ELSE i

\* str.strip()
RECURSIVE StripRight(_)
StripRight(s) ==
    IF Len(s) > 0 /\ IsSpace(s[Len(s)]) THEN StripRight(SubSeq(s, 1, Len(s) - 1)) ELSE s

Strip(s) == StripRight(SubSeq(s, SkipSpaces(s, 1), Len(s)))

W_pack == <<"p", "a", "c", "k">>
W_blister == <<"b", "l", "i", "s", "t", "e", "r">>

(***************************************************************************)
(* _extract_quantity_multiplier                                            *)
(***************************************************************************)
\* no match: the value a search yields when the pattern occurs nowhere
NoMatch == [found |-> FALSE, at |-> 0, value |-> 0]

\* r'\b\d+\s*-?\s*pack\s+blister\b' matched at position i
BlisterPackAt(s, i) ==
    LET d == SkipDigits(s, i)
        a == SkipSpaces(s, d)
        h == IF a <= Len(s) /\ s[a] = "-" THEN a + 1 ELSE a
        b == SkipSpaces(s, h)
        p == b + Len(W_pack)
        q == SkipSpaces(s, p)
    IN  /\ WordBoundary(s, i)
        /\ d > i
        /\ HasAt(s, b, W_pack)
        /\ q > p
        /\ HasAt(s, q, W_blister)
        /\ WordBoundary(s, q + Len(W_blister))

\* re.search(r'\b\d+\s*-?\s*pack\s+blister\b', s) is not None
BlisterPackSearch(s) == \E i \in 1..Len(s) : BlisterPackAt(s, i)

\* r'\b(\d+)x\s*pack\b' matched at position i
XPackAt(s, i) ==
    LET d == SkipDigits(s, i)
        b == SkipSpaces(s, d + 1)
    IN  /\ WordBoundary(s, i)
        /\ d > i
        /\ HasAt(s, d, <<"x">>)
        /\ HasAt(s, b, W_pack)
        /\ WordBoundary(s, b + Len(W_pack))

\* r'\b(\d+)x\b' matched at position i
XAt(s, i) ==
    LET d == SkipDigits(s, i)
    IN  /\ WordBoundary(s, i)
        /\ d > i
        /\ HasAt(s, d, <<"x">>)
        /\ WordBoundary(s, d + 1)

\* r'\bpacks?\s*x\s*(\d+)\b' matched at position i; the group starts at PacksXGroup
PacksXGroup(s, i) ==
    LET p == i + Len(W_pack)
        o == IF p <= Len(s) /\ s[p] = "s" THEN p + 1 ELSE p
        a == SkipSpaces(s, o)
    IN  SkipSpaces(s, a + 1)

PacksXAt(s, i) ==
    LET p == i + Len(W_pack)
        o == IF p <= Len(s) /\ s[p] = "s" THEN p + 1 ELSE p
        a == SkipSpaces(s, o)
        g == PacksXGroup(s, i)
        e == SkipDigits(s, g)
    IN  /\ WordBoundary(s, i)
        /\ HasAt(s, i, W_pack)
        /\ HasAt(s, a, <<"x">>)
        /\ e > g
        /\ WordBoundary(s, e)

\* re.search: the leftmost match, with group 1 as an integer and where it starts
XPackSearch(s) ==
    IF \E i \in 1..Len(s) : XPackAt(s, i)
    THEN LET i == CHOOSE i \in 1..Len(s) :
                      XPackAt(s, i) /\ \A j \in 1..(i - 1) : ~XPackAt(s, j)
         IN  [found |-> TRUE, at |-> i, value |-> DigitsToInt(s, i, SkipDigits(s, i) - 1)]
    ELSE NoMatch

XSearch(s) ==
    IF \E i \in 1..Len(s) : XAt(s, i)
    THEN LET i == CHOOSE i \in 1..Len(s) :
                      XAt(s, i) /\ \A j \in 1..(i - 1) : ~XAt(s, j)
         IN  [found |-> TRUE, at |-> i, value |-> DigitsToInt(s, i, SkipDigits(s, i) - 1)]
    ELSE NoMatch

PacksXSearch(s) ==
    IF \E i \in 1..Len(s) : PacksXAt(s, i)
    THEN LET i == CHOOSE i \in 1..Len(s) :
                      PacksXAt(s, i) /\ \A j \in 1..(i - 1) : ~PacksXAt(s, j)
             g == PacksXGroup(s, i)
         IN  [found |-> TRUE, at |-> g, value |-> DigitsToInt(s, g, SkipDigits(s, g) - 1)]
    ELSE NoMatch

ExtractMatch_any_x(t) ==
    LET lowered == Lower(t)
        m2 == XPackSearch(lowered)
        m3 == XSearch(lowered)
        m4 == PacksXSearch(lowered)
    IN  IF Contains(lowered, W_blister) /\ BlisterPackSearch(lowered)
        THEN [value |-> 1, at |-> 0]
        ELSE IF m2.found
        THEN [value |-> m2.value, at |-> m2.at]
        ELSE IF m3.found
        THEN [value |-> m3.value, at |-> m3.at]
        ELSE IF m4.found
        THEN [value |-> m4.value, at |-> m4.at]
        ELSE [value |-> 1, at |-> 0]

\* The body of _extract_quantity_multiplier: the multiplier, and the position in
\* the title of the digits it was read from (0 when it is the default).
ExtractMatch(t) ==
    LET lowered == Lower(t)
        m2 == XPackSearch(lowered)
        m3 == XSearch(lowered)
        m4 == PacksXSearch(lowered)
    IN  IF Contains(lowered, W_blister) /\ BlisterPackSearch(lowered)
        THEN [value |-> 1, at |-> 0]
        ELSE IF m2.found
        THEN [value |-> m2.value, at |-> m2.at]
        ELSE IF m3.found /\ ~Contains(lowered, W_blister)
        THEN [value |-> m3.value, at |-> m3.at]
        ELSE IF m4.found
        THEN [value |-> m4.value, at |-> m4.at]
        ELSE [value |-> 1, at |-> 0]

_extract_quantity_multiplier(t) == ExtractMatch(t).value

(***************************************************************************)
(* CsvRow (schemas.py): validation of one csv.DictReader row.  A raw row    *)
(* gives the text of each column; the columns in `absent` have no value in  *)
(* the row (the header lacks the column, or the line is short).             *)
(***************************************************************************)
\* Decimal('0.00')
DecimalZero == [coef |-> 0, scale |-> 2]

\* the text s[i..] is <digits>[.<digits>] or .<digits>, the numeric strings of the
\* decimal module written with digits and a point
IsDecimalText(s, i) ==
    LET d == SkipDigits(s, i)
        f == IF d <= Len(s) /\ s[d] = "." THEN SkipDigits(s, d + 1) ELSE d
    IN  /\ f = Len(s) + 1
        /\ (d > i \/ f > d + 1)

\* the digits of s[i..j], the point left out, as an integer
RECURSIVE Coefficient(_, _, _)
Coefficient(s, i, j) ==
    IF j < i THEN 0
    ELSE IF s[j] = "." THEN Coefficient(s, i, j - 1)
    ELSE 10 * Coefficient(s, i, j - 1) + DigitValue(s[j])

FractionDigits(s) ==
    IF \E k \in 1..Len(s) : s[k] = "."
    THEN Len(s) - (CHOOSE k \in 1..Len(s) : s[k] = ".")
    ELSE 0

\* CsvRow._parse_decimal: None and blank give 0.00; Decimal(value) raises
\* decimal.InvalidOperation (an ArithmeticError, not a ValueError) on other text
_parse_decimal(present, text) ==
    LET value == Strip(text)
        signed == Len(value) > 0 /\ value[1] \in {"-", "+"}
        start == IF signed THEN 2 ELSE 1
    IN  IF ~present \/ Len(value) = 0
        THEN [raises |-> "none", value |-> DecimalZero]
        ELSE IF IsDecimalText(value, start)
        THEN [raises |-> "none",
              value |-> [coef |-> (IF value[1] = "-" THEN -1 ELSE 1)
                                      * Coefficient(value, start, Len(value)),
                         scale |-> FractionDigits(value)]]
        ELSE [raises |-> "InvalidOperation", value |-> DecimalZero]

\* CsvRow._parse_quantity: None and blank give 1; int(value) raises ValueError on
\* text that is no integer literal
_parse_quantity(present, text) ==
    LET value == Strip(text)
        signed == Len(value) > 0 /\ value[1] \in {"-", "+"}
        start == IF signed THEN 2 ELSE 1
    IN  IF ~present \/ Len(value) = 0
        THEN [raises |-> "none", value |-> 1]
        ELSE IF start <= Len(value) /\ SkipDigits(value, start) = Len(value) + 1
        THEN [raises |-> "none",
              value |-> (IF value[1] = "-" THEN -1 ELSE 1)
                            * DigitsToInt(value, start, Len(value))]
        ELSE [raises |-> "ValueError", value |-> 0]

\* CsvRow._empty_string_to_none on listing_title, then the str type of the field:
\* None fails validation
_empty_string_to_none(present, text) ==
    IF present /\ Len(Strip(text)) > 0
    THEN [raises |-> "none", value |-> Strip(text)]
    ELSE [raises |-> "ValueError", value |-> <<>>]

\* the shape YYYY-MM-DD HH:MM:SS
DateShape == <<"d", "d", "d", "d", "-", "d", "d", "-", "d", "d", " ",
               "d", "d", ":", "d", "d", ":", "d", "d">>

\* CsvRow._parse_datetime, then the datetime type of the field: None and blank give
\* None (the empty text here); other text must parse as a datetime
_parse_datetime(present, text) ==
    LET value == Strip(text)
    IN  IF ~present \/ Len(value) = 0
        THEN [raises |-> "none", value |-> <<>>]
        ELSE IF /\ Len(value) = Len(DateShape)
                /\ \A k \in 1..Len(value) :
                       IF DateShape[k] = "d" THEN IsDigit(value[k]) ELSE value[k] = DateShape[k]
        THEN [raises |-> "none", value |-> value]
        ELSE [raises |-> "ValueError", value |-> <<>>]

\* CsvRow.model_validate(raw_row).  A ValueError of a validator, a missing required
\* field and a None in a str field are collected into one ValidationError; any
\* other exception of a validator leaves model_validate as it is.
model_validate(raw) ==
    LET has(f) == f \notin raw.absent
        title_ == _empty_string_to_none(has("LISTING_TITLE"), raw.LISTING_TITLE)
        qty == _parse_quantity(has("QUANTITY_SOLD"), raw.QUANTITY_SOLD)
        amount == _parse_decimal(has("TRANSACTION_AMOUNT"), raw.TRANSACTION_AMOUNT)
        paid == _parse_decimal(has("BUYER_PAID"), raw.BUYER_PAID)
        price == _parse_decimal(has("ORIGINAL_ITEM_PRICE"), raw.ORIGINAL_ITEM_PRICE)
        placed == _parse_datetime(has("ORDER_PLACED_AT_UTC"), raw.ORDER_PLACED_AT_UTC)
        row == [order_id |-> raw.ORDER_ID,
                listing_title |-> title_.value,
                quantity_sold |-> qty.value,
                transaction_type |-> raw.TRANSACTION_TYPE,
                transaction_amount |-> amount.value,
                buyer_paid |-> paid.value,
                original_item_price |-> price.value,
                order_placed_at_utc |-> placed.value]
    IN  IF "InvalidOperation" \in {amount.raises, paid.raises, price.raises}
        THEN [raises |-> "InvalidOperation", row |-> row]
        ELSE IF \/ ~has("ORDER_ID")
                \/ ~has("TRANSACTION_TYPE")
                \/ "ValueError" \in {title_.raises, qty.raises, placed.raises}
        THEN [raises |-> "ValidationError", row |-> row]
        ELSE [raises |-> "none", row |-> row]

(***************************************************************************)
(* The rows a Whatnot export may hold.                                     *)
(***************************************************************************)
BaseRow ==
    [ORDER_ID |-> "1",
     LISTING_TITLE |-> <<"P", "i", "k", "a", "c", "h", "u", " ", "V">>,
     QUANTITY_SOLD |-> <<"2">>,
     TRANSACTION_TYPE |-> "ORDER_EARNINGS",
     TRANSACTION_AMOUNT |-> <<"1", "0", ".", "0", "0">>,
     BUYER_PAID |-> <<"1", "0", ".", "0", "0">>,
     ORIGINAL_ITEM_PRICE |-> <<"1", "0", ".", "0", "0">>,
     ORDER_PLACED_AT_UTC |-> <<"2", "0", "2", "4", "-", "0", "1", "-", "0", "5", " ", "1", "0", ":", "0", "0", ":", "0", "0">>,
     absent |-> {}]

CsvRows ==
    <<
      \* 1: test_ingest_sales_only: a sale of 2
      BaseRow,
      \* 2: test_ingest_sales_only: a giveaway, nothing paid
      [BaseRow EXCEPT !.ORDER_ID = "2",
                      !.LISTING_TITLE = <<"G", "i", "v", "e", "a", "w", "a", "y">>,
                      !.QUANTITY_SOLD = <<"1">>,
                      !.TRANSACTION_AMOUNT = <<"-", "4", ".", "0", "0">>,
                      !.BUYER_PAID = <<"0", ".", "0", "0">>,
                      !.ORIGINAL_ITEM_PRICE = <<"0", ".", "0", "0">>],
      \* 3: test_ingest_defaults_quantity: blank quantity, title with stray spaces
      [BaseRow EXCEPT !.ORDER_ID = "3",
                      !.LISTING_TITLE = <<" ", "C", "h", "a", "r", "i", "z", "a", "r", "d", " ", " ", "e", "x", " ">>,
                      !.QUANTITY_SOLD = <<>>],
      \* 4: test_ingest_missing_order_id_skips: blank order id
      [BaseRow EXCEPT !.ORDER_ID = "",
                      !.LISTING_TITLE = <<"B", "u", "l", "b", "a", "s", "a", "u", "r">>],
      \* 5: quantity 2 of a 1x pack with a lot number
      [BaseRow EXCEPT !.ORDER_ID = "5",
                      !.LISTING_TITLE = <<"1", "x", " ", "P", "a", "c", "k", " ", "-", " ", "I", "t", "e", "m", " ", "#", "1", "1">>,
                      !.QUANTITY_SOLD = <<"2">>],
      \* 6: quantity 1 of a 2x pack
      [BaseRow EXCEPT !.ORDER_ID = "6",
                      !.LISTING_TITLE = <<"2", "x", " ", "P", "a", "c", "k", " ", "-", " ", "I", "t", "e", "m">>,
                      !.QUANTITY_SOLD = <<"1">>],
      \* 7: blank title
      [BaseRow EXCEPT !.ORDER_ID = "7",
                      !.LISTING_TITLE = <<" ", " ">>],
      \* 8: blank transaction type
      [BaseRow EXCEPT !.ORDER_ID = "8",
                      !.TRANSACTION_TYPE = ""],
      \* 9: quantity that is no number
      [BaseRow EXCEPT !.ORDER_ID = "9",
                      !.QUANTITY_SOLD = <<"t", "w", "o">>],
      \* 10: amount that is no number
      [BaseRow EXCEPT !.ORDER_ID = "10",
                      !.TRANSACTION_AMOUNT = <<"n", "/", "a">>],
      \* 11: date that is no date
      [BaseRow EXCEPT !.ORDER_ID = "11",
                      !.ORDER_PLACED_AT_UTC = <<"s", "o", "o", "n">>],
      \* 12: the order of row 1 again, in a later export
      [BaseRow EXCEPT !.LISTING_TITLE = <<"2", "x", " ", "P", "a", "c", "k", " ", "-", " ", "I", "t", "e", "m">>,
                      !.QUANTITY_SOLD = <<"1">>],
      \* 13: another transaction type, money paid
      [BaseRow EXCEPT !.ORDER_ID = "13",
                      !.TRANSACTION_TYPE = "SHIPPING_FEE"],
      \* 14: only the original price is positive
      [BaseRow EXCEPT !.ORDER_ID = "14",
                      !.TRANSACTION_AMOUNT = <<"0", ".", "0", "0">>,
                      !.BUYER_PAID = <<>>,
                      !.ORIGINAL_ITEM_PRICE = <<"3", ".", "5">>],
      \* 15: a 0x pack
      [BaseRow EXCEPT !.ORDER_ID = "15",
                      !.LISTING_TITLE = <<"0", "x", " ", "P", "a", "c", "k">>,
                      !.QUANTITY_SOLD = <<"1">>],
      \* 16: a short line: no quantity, no amounts, no date
      [BaseRow EXCEPT !.ORDER_ID = "16",
                      !.absent = {"QUANTITY_SOLD", "TRANSACTION_AMOUNT", "BUYER_PAID", "ORDER_PLACED_AT_UTC"}],
      \* 17: a short line that ends before the transaction type
      [BaseRow EXCEPT !.ORDER_ID = "17",
                      !.absent = {"QUANTITY_SOLD", "TRANSACTION_TYPE", "TRANSACTION_AMOUNT", "BUYER_PAID", "ORIGINAL_ITEM_PRICE", "ORDER_PLACED_AT_UTC"}] >>

(***************************************************************************)
(* ingestion.py                                                            *)
(***************************************************************************)
\* Decimal > 0
Positive(dec) == dec.coef > 0

\* the original item price left out
is_sale_row_no_price(row) ==
    IF row.transaction_type # "ORDER_EARNINGS" THEN FALSE
    ELSE IF Positive(row.transaction_amount) THEN TRUE
    ELSE Positive(row.buyer_paid)

is_sale_row(row) ==
    IF row.transaction_type # "ORDER_EARNINGS" THEN FALSE
    ELSE IF Positive(row.transaction_amount) THEN TRUE
    ELSE IF Positive(row.buyer_paid) THEN TRUE
    ELSE Positive(row.original_item_price)

\* " ".join(words): the words of s from position i on, single spaces between them
RECURSIVE JoinWords(_, _)
JoinWords(s, i) ==
    LET b == SkipSpaces(s, i)
    IN  IF b > Len(s) THEN <<>>
        ELSE IF IsSpace(s[i]) THEN <<" ">> \o JoinWords(s, b)
        ELSE <<s[i]>> \o JoinWords(s, i + 1)

\* " ".join(title.strip().split())
_normalize_title(t) == JoinWords(Strip(t), 1)

\* model_validate, _normalize_title and _extract_quantity_multiplier of each row of
\* the catalogue, evaluated once
Validated == [k \in DOMAIN CsvRows |-> model_validate(CsvRows[k])]

StoredTitle == [k \in DOMAIN CsvRows |-> _normalize_title(Validated[k].row.listing_title)]

Multiplier ==
    [k \in DOMAIN CsvRows |-> _extract_quantity_multiplier(Validated[k].row.listing_title)]

\* the multiplier left out
actual_quantity_raw(quantity_sold, multiplier) == quantity_sold

\* actual_quantity = row.quantity_sold * multiplier
actual_quantity(quantity_sold, multiplier) == quantity_sold * multiplier

\* Transaction(...): row k of the catalogue as it is added to the session.  row_no
\* is the line of the file the record was read from (not a column of the table).
Transaction(k, path, rowNo, sale_flag) ==
    LET row == Validated[k].row
    IN
    [order_id |-> row.order_id,
     listing_title |-> StoredTitle[k],
     quantity_sold |-> actual_quantity(row.quantity_sold, Multiplier[k]),
     transaction_amount |-> row.transaction_amount,
     buyer_paid |-> row.buyer_paid,
     original_item_price |-> row.original_item_price,
     transaction_type |-> row.transaction_type,
     order_placed_at |-> row.order_placed_at_utc,
     source_file |-> path,
     is_sale |-> sale_flag,
     row_no |-> rowNo]

\* files_processed = 0; rows_loaded = 0; rows_skipped = 0, on a fresh session
NewSession ==
    [pending |-> <<>>, files_processed |-> 0, rows_loaded |-> 0, rows_skipped |-> 0,
     raised |-> "none"]

\* a skipped row left uncounted
Skip_uncounted(st) == st

\* rows_skipped += 1; continue
Skip(st) == [st EXCEPT !.rows_skipped = @ + 1]

\* the duplicate check left out
Existing_never(st, committed, order_id) == FALSE

\* select(Transaction).where(Transaction.order_id == order_id): the session reads
\* the committed rows and, the query having flushed them, the rows it added itself
Existing(st, committed, order_id) ==
    \/ \E k \in DOMAIN committed : committed[k].order_id = order_id
    \/ \E k \in DOMAIN st.pending : st.pending[k].order_id = order_id

\* non-sales are never skipped
SkipNonSale_never(include_non_sales, sale_flag) == FALSE

\* if not include_non_sales and not sale_flag
SkipNonSale(include_non_sales, sale_flag) == ~include_non_sales /\ ~sale_flag

\* the body of `for raw_row in reader`, for line rowNo of the file at path, which
\* holds row k of the catalogue
ProcessRow(st, committed, path, rowNo, k, include_non_sales) ==
    LET v == Validated[k]
        row == v.row
        sale_flag == is_sale_row(row)
    IN  IF v.raises = "InvalidOperation" THEN [st EXCEPT !.raised = "InvalidOperation"]
        ELSE IF v.raises = "ValidationError" THEN Skip(st)
        ELSE IF row.order_id = "" \/ Len(row.listing_title) = 0 THEN Skip(st)
        ELSE IF SkipNonSale(include_non_sales, sale_flag) THEN Skip(st)
        ELSE IF Existing(st, committed, row.order_id) THEN Skip(st)
        ELSE [st EXCEPT !.pending = Append(@, Transaction(k, path, rowNo, sale_flag)),
                        !.rows_loaded = @ + 1]

\* `for raw_row in reader` from line rowNo on; an exception ends the loop
RECURSIVE ReadRows(_, _, _, _, _, _)
ReadRows(st, committed, path, rows, rowNo, include_non_sales) ==
    IF rowNo > Len(rows) \/ st.raised # "none" THEN st
    ELSE ReadRows(ProcessRow(st, committed, path, rowNo, rows[rowNo], include_non_sales),
                  committed, path, rows, rowNo + 1, include_non_sales)

\* files_processed += 1, after the rows of a file
CloseFile(st) ==
    IF st.raised = "none" THEN [st EXCEPT !.files_processed = @ + 1] ELSE st

\* the body of `for csv_path in csv_paths`:
\* if not path.exists(): raise FileNotFoundError; then the rows of the file
ReadFile(st, committed, files, path, include_non_sales) ==
    IF path \notin DOMAIN files
    THEN [st EXCEPT !.raised = "FileNotFoundError"]
    ELSE CloseFile(ReadRows(st, committed, path, files[path], 1, include_non_sales))

\* `for csv_path in csv_paths` from the k-th path on; an exception ends the loop
RECURSIVE ReadFiles(_, _, _, _, _, _)
ReadFiles(st, committed, files, csv_paths, k, include_non_sales) ==
    IF k > Len(csv_paths) \/ st.raised # "none" THEN st
    ELSE ReadFiles(ReadFile(st, committed, files, csv_paths[k], include_non_sales),
                   committed, files, csv_paths, k + 1, include_non_sales)

\* no unique index on order_id
UniqueOrderId_none(committed, pending) == TRUE

\* order_id ... unique=True (models.py): the rows a session commits may not repeat
\* an order_id among themselves or with a committed row
UniqueOrderId(committed, pending) ==
    LET all == committed \o pending
    IN  \A i, j \in DOMAIN all : all[i].order_id = all[j].order_id => i = j

\* session.commit(): the pending rows become visible, or the unique index refuses
\* them (IntegrityError) and the transaction is rolled back
Commit(st, committed) ==
    IF st.raised # "none" THEN [st |-> st, committed |-> committed]
    ELSE IF UniqueOrderId(committed, st.pending)
    THEN [st |-> st, committed |-> committed \o st.pending]
    ELSE [st |-> [st EXCEPT !.raised = "IntegrityError"], committed |-> committed]

(***************************************************************************)
(* Spec: ingest_csv_files called again and again by one caller at a time   *)
(* (run_ingest of cli.py, POST /ingest of main.py).                        *)
(***************************************************************************)
MaxRows == 2
MaxPaths == 2

\* sequences over S of length lo..hi
SeqsUpTo(S, lo, hi) == UNION {[1..n -> S] : n \in lo..hi}

Paths == {"sales.csv", "overlap.csv", "missing.csv"}

\* the csv_paths a call may be given
PathLists == SeqsUpTo(Paths, 1, MaxPaths)

\* a later export: the order of row 1 again, and one line twice
OverlapRows == <<12, 5, 5>>

\* sales.csv holds any rows of the catalogue; missing.csv does not exist
FileSystems ==
    {[p \in {"sales.csv", "overlap.csv"} |->
         IF p = "sales.csv" THEN picks ELSE OverlapRows] :
     picks \in SeqsUpTo(DOMAIN CsvRows, 0, MaxRows)}

NoCall ==
    [called |-> FALSE, csv_paths |-> <<>>, include_non_sales |-> FALSE, raised |-> "none",
     files_processed |-> 0, rows_loaded |-> 0, rows_skipped |-> 0,
     before |-> <<>>, again |-> FALSE]

\* ingest_csv_files(session, csv_paths, include_non_sales) on a session of its own,
\* which the caller closes (rolls back) when the call raises.  `before` keeps the
\* table as the call found it; `again` says that the call before this one had the
\* same paths and the same flag, and returned.
IngestCsvFiles(csv_paths, include_non_sales) ==
    \E done \in {Commit(ReadFiles(NewSession, db, fs, csv_paths, 1, include_non_sales), db)} :
    LET st == done.st
    IN  /\ db' = done.committed
        /\ last' = [called |-> TRUE, csv_paths |-> csv_paths,
                    include_non_sales |-> include_non_sales, raised |-> st.raised,
                    files_processed |-> st.files_processed,
                    rows_loaded |-> st.rows_loaded, rows_skipped |-> st.rows_skipped,
                    before |-> db,
                    again |-> /\ last.called
                              /\ last.raised = "none"
                              /\ last.csv_paths = csv_paths
                              /\ last.include_non_sales = include_non_sales]
        /\ nonSalesUsed' = (nonSalesUsed \/ include_non_sales)
        /\ UNCHANGED <<title, extracted, fs, sess, images, allocations, reply>>

Init ==
    /\ fs \in FileSystems
    /\ db = <<>>
    /\ last = NoCall
    /\ nonSalesUsed = FALSE
    /\ title = [text |-> <<>>, tokens |-> 0]
    /\ extracted = [done |-> FALSE, value |-> 0, at |-> 0]
    /\ sess = <<>>
    /\ images = {}
    /\ allocations = <<>>
    /\ reply = <<>>

Next ==
    \E csv_paths \in PathLists, include_non_sales \in BOOLEAN :
        IngestCsvFiles(csv_paths, include_non_sales)

Spec == Init /\ [][Next]_vars

(***************************************************************************)
(* SpecConcurrent: two callers, each with a session of its own, run         *)
(* ingest_csv_files at the same time (the dashboard and the API serve one   *)
(* request per thread).  A call advances one file or one row at a time; its *)
(* queries read what is committed at that moment.                           *)
(***************************************************************************)
MaxBatches == 1

Workers == {1, 2}

\* the files of test_ingest_sales_only and of a later, overlapping export
ConcurrentFiles == [p \in {"sales.csv", "overlap.csv"} |->
                        IF p = "sales.csv" THEN <<1, 2>> ELSE OverlapRows]

Idle == [pc |-> "idle", csv_paths |-> <<>>, include_non_sales |-> FALSE,
         k |-> 0, rowNo |-> 0, st |-> NewSession, calls |-> 0]

\* ingest_csv_files is entered: the counters are zeroed
Begin(w, csv_paths, include_non_sales) ==
    /\ sess[w].pc = "idle"
    /\ \E n \in 0..(MaxBatches - 1) : sess[w].calls = n
    /\ sess' = [sess EXCEPT ![w] = [pc |-> "file", csv_paths |-> csv_paths,
                                    include_non_sales |-> include_non_sales,
                                    k |-> 1, rowNo |-> 0, st |-> NewSession,
                                    calls |-> sess[w].calls + 1]]
    /\ UNCHANGED <<title, extracted, fs, db, last, nonSalesUsed, images, allocations, reply>>

\* the next csv_path: it exists and is opened
OpenNext(w) ==
    /\ sess[w].pc = "file"
    /\ sess[w].k <= Len(sess[w].csv_paths)
    /\ sess[w].csv_paths[sess[w].k] \in DOMAIN fs
    /\ sess' = [sess EXCEPT ![w].pc = "rows", ![w].rowNo = 1]
    /\ UNCHANGED <<title, extracted, fs, db, last, nonSalesUsed, images, allocations, reply>>

\* the next csv_path does not exist: FileNotFoundError leaves the call, and the
\* caller closes the session, which rolls back what it added
RaiseNotFound(w) ==
    /\ sess[w].pc = "file"
    /\ sess[w].k <= Len(sess[w].csv_paths)
    /\ sess[w].csv_paths[sess[w].k] \notin DOMAIN fs
    /\ sess' = [sess EXCEPT ![w].pc = "idle",
                            ![w].st = [NewSession EXCEPT !.raised = "FileNotFoundError"]]
    /\ UNCHANGED <<title, extracted, fs, db, last, nonSalesUsed, images, allocations, reply>>

\* one raw_row of the open file; an exception of the row leaves the call
ReadRow(w) ==
    /\ sess[w].pc = "rows"
    /\ sess[w].rowNo <= Len(fs[sess[w].csv_paths[sess[w].k]])
    /\ \E st \in {ProcessRow(sess[w].st, db, sess[w].csv_paths[sess[w].k], sess[w].rowNo,
                             fs[sess[w].csv_paths[sess[w].k]][sess[w].rowNo],
                             sess[w].include_non_sales)} :
           sess' = IF st.raised = "none"
                   THEN [sess EXCEPT ![w].st = st, ![w].rowNo = @ + 1]
                   ELSE [sess EXCEPT ![w].pc = "idle",
                                     ![w].st = [NewSession EXCEPT !.raised = st.raised]]
    /\ UNCHANGED <<title, extracted, fs, db, last, nonSalesUsed, images, allocations, reply>>

\* the reader is exhausted: files_processed += 1
EndOfFile(w) ==
    /\ sess[w].pc = "rows"
    /\ sess[w].rowNo > Len(fs[sess[w].csv_paths[sess[w].k]])
    /\ sess' = [sess EXCEPT ![w].pc = "file", ![w].k = @ + 1, ![w].st = CloseFile(@)]
    /\ UNCHANGED <<title, extracted, fs, db, last, nonSalesUsed, images, allocations, reply>>

\* session.commit() after the last file, and the return
CommitBatch(w) ==
    /\ sess[w].pc = "file"
    /\ sess[w].k > Len(sess[w].csv_paths)
    /\ \E done \in {Commit(sess[w].st, db)} :
           /\ db' = done.committed
           /\ sess' = [sess EXCEPT ![w].pc = "idle", ![w].st = done.st]
    /\ UNCHANGED <<title, extracted, fs, last, nonSalesUsed, images, allocations, reply>>

InitConcurrent ==
    /\ fs = ConcurrentFiles
    /\ db = <<>>
    /\ sess = [w \in Workers |-> Idle]
    /\ last = NoCall
    /\ nonSalesUsed = FALSE
    /\ title = [text |-> <<>>, tokens |-> 0]
    /\ extracted = [done |-> FALSE, value |-> 0, at |-> 0]
    /\ images = {}
    /\ allocations = <<>>
    /\ reply = <<>>

NextConcurrent ==
    \E w \in Workers :
        \/ \E csv_paths \in PathLists, include_non_sales \in BOOLEAN :
               Begin(w, csv_paths, include_non_sales)
        \/ OpenNext(w)
        \/ RaiseNotFound(w)
        \/ ReadRow(w)
        \/ EndOfFile(w)
        \/ CommitBatch(w)

SpecConcurrent == InitConcurrent /\ [][NextConcurrent]_vars

(***************************************************************************)
(* Titles for the quantity extractor: every concatenation of at most       *)
(* MaxTokens fragments.                                                    *)
(***************************************************************************)
MaxTokens == 4

TitleTokens ==
    { <<"0">>, <<"2">>, <<"1", "1">>, <<"x">>, <<" ">>, <<"-">>, <<"#">>,
      <<"p", "a", "c", "k">>, <<"P", "a", "c", "k", "s">>,
      <<"b", "l", "i", "s", "t", "e", "r">>, <<"I", "t", "e", "m">> }

NotExtracted == [done |-> FALSE, value |-> 0, at |-> 0]

\* A title is written fragment by fragment.
AppendToken(tok) ==
    /\ ~extracted.done
    /\ \E n \in 0..(MaxTokens - 1) : title.tokens = n
    /\ title' = [text |-> title.text \o tok, tokens |-> title.tokens + 1]
    /\ UNCHANGED <<extracted, fs, db, last, nonSalesUsed, sess, images, allocations, reply>>

\* multiplier = _extract_quantity_multiplier(row.listing_title)
ExtractMultiplier ==
    /\ ~extracted.done
    /\ extracted' = [done |-> TRUE,
                     value |-> _extract_quantity_multiplier(title.text),
                     at |-> ExtractMatch(title.text).at]
    /\ UNCHANGED <<title, fs, db, last, nonSalesUsed, sess, images, allocations, reply>>

InitMultiplier ==
    /\ title = [text |-> <<>>, tokens |-> 0]
    /\ extracted = NotExtracted
    /\ fs = <<>>
    /\ db = <<>>
    /\ last = <<>>
    /\ nonSalesUsed = FALSE
    /\ sess = <<>>
    /\ images = {}
    /\ allocations = <<>>
    /\ reply = <<>>

NextMultiplier ==
    \/ \E tok \in TitleTokens : AppendToken(tok)
    \/ ExtractMultiplier

SpecMultiplier == InitMultiplier /\ [][NextMultiplier]_vars

(***************************************************************************)
(* Title normalisation (app/services/reporting.py).  The alphabet of the   *)
(* model is ASCII and the letter e with an acute accent.                   *)
(***************************************************************************)
\* None in a nullable text column or field
None == <<"None">>

LowerSet == Range(LowerChars)

\* str.upper() on one character
UpperChar(c) ==
    IF c \in LowerSet
    THEN UpperChars[CHOOSE i \in DOMAIN LowerChars : LowerChars[i] = c]
    ELSE c

\* " ".join(s.split())
Collapse(s) == JoinWords(Strip(s), 1)

\* str.replace(old, new) from position i on
RECURSIVE Replace(_, _, _, _)
Replace(s, i, old, new) ==
    IF i > Len(s) THEN <<>>
    ELSE IF HasAt(s, i, old) THEN new \o Replace(s, i + Len(old), old, new)
    ELSE <<s[i]>> \o Replace(s, i + 1, old, new)

\* the marker "free" forgotten
GiveawayMarkers_no_free ==
    <<<<"g", "i", "v">>, <<"g", "i", "v", "e", "a", "w", "a", "y">>, <<"r", "a", "n", "d", "o", "m", " ", "a", "s", "i", "a", "n", " ", "p", "a", "c", "k">>, <<"r", "a", "n", "d", "o", "m", " ", "p", "o", "k", "e", "m", "o", "n", " ", "p", "a", "c", "k">>,
      <<"a", "s", "i", "a", "n", " ", "p", "o", "k", "e", "m", "o", "n", " ", "p", "a", "c", "k">>>>

GiveawayMarkers ==
    <<<<"g", "i", "v">>, <<"g", "i", "v", "e", "a", "w", "a", "y">>, <<"r", "a", "n", "d", "o", "m", " ", "a", "s", "i", "a", "n", " ", "p", "a", "c", "k">>, <<"r", "a", "n", "d", "o", "m", " ", "p", "o", "k", "e", "m", "o", "n", " ", "p", "a", "c", "k">>,
      <<"a", "s", "i", "a", "n", " ", "p", "o", "k", "e", "m", "o", "n", " ", "p", "a", "c", "k">>, <<"f", "r", "e", "e">>>>

GiveawayKey == <<"r", "a", "n", "d", "o", "m", " ", "a", "s", "i", "a", "n", " ", "p", "a", "c", "k">>

EventPrefixes ==
    <<<<"f", "r", "i", "d", "a", "y", " ", "f", "i", "e", "s", "t", "a">>, <<"f", "r", "i", "d", "a", "y", " ", "s", "u", "r", "p", "r", "i", "s", "e">>, <<"n", "e", "w", " ", "y", "e", "a", "r", "s", " ", "s", "p", "i", "n", " ", "o", "u", "t">>,
      <<"k", "a", "n", "t", "o", " ", "c", "h", "r", "i", "s", "t", "m", "a", "s", " ", "g", "i", "f", "t", "s">>>>

\* the position after the longest run of whitespace and hyphens that starts at i
RECURSIVE SkipSpacesAndHyphens(_, _)
SkipSpacesAndHyphens(s, i) ==
    IF i <= Len(s) /\ (IsSpace(s[i]) \/ s[i] = "-")
    THEN SkipSpacesAndHyphens(s, i + 1)
    ELSE i

\* one round of the prefix loop: replace(prefix, "").strip(), then
\* re.sub(r"^[\s\-]+", "", lowered)
StripPrefix(lowered, prefix) ==
    IF Contains(lowered, prefix)
    THEN LET r == Strip(Replace(lowered, 1, prefix, <<>>))
         IN  SubSeq(r, SkipSpacesAndHyphens(r, 1), Len(r))
    ELSE lowered

RECURSIVE StripPrefixes(_, _)
StripPrefixes(lowered, k) ==
    IF k > Len(EventPrefixes) THEN lowered
    ELSE StripPrefixes(StripPrefix(lowered, EventPrefixes[k]), k + 1)

\* the if/elif chain of the product type; <<>> is None
ProductType(lowered) ==
    IF Contains(lowered, <<"e", "l", "i", "t", "e", " ", "t", "r", "a", "i", "n", "e", "r", " ", "b", "o", "x">>) \/ Contains(lowered, <<"e", "t", "b">>)
    THEN <<"e", "t", "b">>
    ELSE IF Contains(lowered, <<"b", "o", "o", "s", "t", "e", "r", " ", "b", "u", "n", "d", "l", "e">>) THEN <<"b", "o", "o", "s", "t", "e", "r", " ", "b", "u", "n", "d", "l", "e">>
    ELSE IF Contains(lowered, <<"p", "r", "e", "m", "i", "u", "m", " ", "c", "o", "l", "l", "e", "c", "t", "i", "o", "n">>) THEN <<"p", "r", "e", "m", "i", "u", "m", " ", "c", "o", "l", "l", "e", "c", "t", "i", "o", "n">>
    ELSE IF Contains(lowered, <<"u", "l", "t", "r", "a", " ", "p", "r", "e", "m", "i", "u", "m", " ", "c", "o", "l", "l", "e", "c", "t", "i", "o", "n">>) \/ Contains(lowered, <<"u", "p", "c">>)
    THEN <<"u", "p", "c">>
    ELSE IF Contains(lowered, <<"p", "l", "u", "s", "h", " ", "c", "o", "l", "l", "e", "c", "t", "i", "o", "n">>) THEN <<"p", "l", "u", "s", "h", " ", "c", "o", "l", "l", "e", "c", "t", "i", "o", "n">>
    ELSE IF Contains(lowered, <<"f", "i", "g", "u", "r", "e", " ", "c", "o", "l", "l", "e", "c", "t", "i", "o", "n">>) THEN <<"f", "i", "g", "u", "r", "e", " ", "c", "o", "l", "l", "e", "c", "t", "i", "o", "n">>
    ELSE IF Contains(lowered, <<"b", "a", "t", "t", "l", "e", " ", "d", "e", "c", "k">>) THEN <<"b", "a", "t", "t", "l", "e", " ", "d", "e", "c", "k">>
    ELSE IF Contains(lowered, <<"b", "l", "i", "s", "t", "e", "r">>) THEN <<"b", "l", "i", "s", "t", "e", "r">>
    ELSE IF Contains(lowered, <<"s", "l", "e", "e", "v", "e">>) \/ Contains(lowered, <<"s", "l", "e", "e", "v", "e", "d">>) THEN <<"s", "l", "e", "e", "v", "e">>
    ELSE IF Contains(lowered, <<"p", "o", "k", "e", " ", "b", "a", "l", "l", " ", "t", "i", "n">>) \/ Contains(lowered, <<"p", "o", "k", "e", "b", "a", "l", "l", " ", "t", "i", "n">>)
    THEN <<"p", "o", "k", "e", " ", "b", "a", "l", "l", " ", "t", "i", "n">>
    ELSE IF Contains(lowered, <<"p", "a", "c", "k">>) THEN <<"p", "a", "c", "k">>
    ELSE <<>>

\* the alternatives of r"\b(1x?|2x?|pack|...|upc)\b" in the order the regex tries
\* them, the greedy x? first
StopWords ==
    <<<<"1", "x">>, <<"1">>, <<"2", "x">>, <<"2">>, <<"p", "a", "c", "k">>, <<"s", "i", "n", "g", "l", "e">>, <<"s", "l", "e", "e", "v", "e">>, <<"s", "l", "e", "e", "v", "e", "d">>,
      <<"b", "o", "o", "s", "t", "e", "r">>, <<"b", "l", "i", "s", "t", "e", "r">>, <<"e", "l", "i", "t", "e">>, <<"t", "r", "a", "i", "n", "e", "r">>, <<"b", "o", "x">>, <<"e", "t", "b">>, <<"b", "u", "n", "d", "l", "e">>,
      <<"p", "r", "e", "m", "i", "u", "m">>, <<"u", "l", "t", "r", "a">>, <<"c", "o", "l", "l", "e", "c", "t", "i", "o", "n">>, <<"f", "i", "g", "u", "r", "e">>, <<"p", "l", "u", "s", "h">>, <<"b", "a", "t", "t", "l", "e">>,
      <<"d", "e", "c", "k">>, <<"p", "o", "k", "e">>, <<"b", "a", "l", "l">>, <<"t", "i", "n">>, <<"u", "p", "c">>>>

\* alternative k matches at position i, a word boundary on either side
StopWordAt(s, i, k) ==
    /\ WordBoundary(s, i)
    /\ HasAt(s, i, StopWords[k])
    /\ WordBoundary(s, i + Len(StopWords[k]))

\* re.sub(r"\b(1x?|2x?|pack|...|upc)\b", " ", s) from position i on
RECURSIVE RemoveStopWords(_, _)
RemoveStopWords(s, i) ==
    IF i > Len(s) THEN <<>>
    ELSE IF \E k \in DOMAIN StopWords : StopWordAt(s, i, k)
    THEN LET k == CHOOSE k \in DOMAIN StopWords :
                      StopWordAt(s, i, k) /\ \A j \in 1..(k - 1) : ~StopWordAt(s, i, j)
         IN  <<" ">> \o RemoveStopWords(s, i + Len(StopWords[k]))
    ELSE <<s[i]>> \o RemoveStopWords(s, i + 1)

\* re.sub(r"#\d+", "", s) from position i on
RECURSIVE RemoveLotNumbers(_, _)
RemoveLotNumbers(s, i) ==
    IF i > Len(s) THEN <<>>
    ELSE IF s[i] = "#" /\ SkipDigits(s, i + 1) > i + 1
    THEN RemoveLotNumbers(s, SkipDigits(s, i + 1))
    ELSE <<s[i]>> \o RemoveLotNumbers(s, i + 1)

\* re.sub(r"[^\w\s]", " ", s)
ReplaceSpecial(s) ==
    [i \in DOMAIN s |-> IF IsWordChar(s[i]) \/ IsSpace(s[i]) THEN s[i] ELSE " "]

_apply_custom_rules(t) ==
    LET lowered0 == Lower(t)
        lowered == StripPrefixes(lowered0, 1)
        product_type == ProductType(lowered)
        clean == Collapse(ReplaceSpecial(RemoveLotNumbers(RemoveStopWords(lowered, 1), 1)))
    IN  IF \E k \in DOMAIN GiveawayMarkers : Contains(lowered0, GiveawayMarkers[k])
        THEN GiveawayKey
        ELSE IF Len(product_type) > 0 /\ Len(clean) > 0
        THEN clean \o <<" ">> \o product_type
        ELSE IF Len(product_type) > 0 THEN product_type
        ELSE IF Len(clean) > 0 THEN clean
        ELSE lowered

\* unicodedata.normalize("NFKD", c).encode("ascii", "ignore").decode("ascii") of one
\* character: the accent of the decomposed letter is dropped
AsciiOf(c) == IF c = "é" THEN <<"e">> ELSE <<c>>

RECURSIVE Ascii(_, _)
Ascii(s, i) == IF i > Len(s) THEN <<>> ELSE AsciiOf(s[i]) \o Ascii(s, i + 1)

\* [a-z0-9#]
IsKeyChar(c) == c \in LowerSet \cup DigitChars \cup {"#"}

RECURSIVE SkipNonKeyChars(_, _)
SkipNonKeyChars(s, i) ==
    IF i <= Len(s) /\ ~IsKeyChar(s[i]) THEN SkipNonKeyChars(s, i + 1) ELSE i

\* re.sub(r"[^a-z0-9#]+", " ", s) from position i on
RECURSIVE ReplaceNonKeyRuns(_, _)
ReplaceNonKeyRuns(s, i) ==
    IF i > Len(s) THEN <<>>
    ELSE IF IsKeyChar(s[i]) THEN <<s[i]>> \o ReplaceNonKeyRuns(s, i + 1)
    ELSE <<" ">> \o ReplaceNonKeyRuns(s, SkipNonKeyChars(s, i))

\* r"\s+#\d+$" matched at position i
LotSuffixAt(s, i) ==
    LET a == SkipSpaces(s, i)
        e == SkipDigits(s, a + 1)
    IN  /\ a > i
        /\ HasAt(s, a, <<"#">>)
        /\ e > a + 1
        /\ e = Len(s) + 1

\* re.sub(r"\s+#\d+$", "", s)
StripLotSuffix(s) ==
    IF \E i \in 1..Len(s) : LotSuffixAt(s, i)
    THEN LET i == CHOOSE i \in 1..Len(s) :
                      LotSuffixAt(s, i) /\ \A j \in 1..(i - 1) : ~LotSuffixAt(s, j)
         IN  SubSeq(s, 1, i - 1)
    ELSE s

\* the letter case kept
normalize_title_no_lower(t, mode) == IF mode = "exact" THEN t ELSE Collapse(t)

normalize_title(t, mode) ==
    LET cleaned == Lower(Collapse(t))
    IN  IF mode = "exact" THEN t
        ELSE IF mode = "case_insensitive" THEN cleaned
        ELSE IF mode \in {"aggressive", "custom"}
        THEN StripLotSuffix(_apply_custom_rules(Collapse(ReplaceNonKeyRuns(Ascii(cleaned, 1), 1))))
        ELSE cleaned

(***************************************************************************)
(* The set classifier and the display title (app/services/reporting.py)    *)
(***************************************************************************)
OnePieceSet(lowered) ==
    IF Contains(lowered, <<"a", "z", "u", "r", "e", " ", "s", "e", "a">>) THEN <<"O", "n", "e", " ", "P", "i", "e", "c", "e", " ", "-", " ", "A", "z", "u", "r", "e", " ", "S", "e", "a">>
    ELSE IF Contains(lowered, <<"o", "p", " ", "1", "4">>) \/ Contains(lowered, <<"o", "p", "1", "4">>)
    THEN <<"O", "n", "e", " ", "P", "i", "e", "c", "e", " ", "-", " ", "O", "P", "1", "4">>
    ELSE IF Contains(lowered, <<"o", "p", " ", "1", "3">>) \/ Contains(lowered, <<"o", "p", "1", "3">>)
    THEN <<"O", "n", "e", " ", "P", "i", "e", "c", "e", " ", "-", " ", "O", "P", "1", "3">>
    ELSE IF Contains(lowered, <<"o", "p", " ", "1", "2">>) \/ Contains(lowered, <<"o", "p", "1", "2">>)
    THEN <<"O", "n", "e", " ", "P", "i", "e", "c", "e", " ", "-", " ", "O", "P", "1", "2">>
    ELSE IF Contains(lowered, <<"o", "p", " ", "1", "1">>) \/ Contains(lowered, <<"o", "p", "1", "1">>)
    THEN <<"O", "n", "e", " ", "P", "i", "e", "c", "e", " ", "-", " ", "O", "P", "1", "1">>
    ELSE IF \/ Contains(lowered, <<"o", "p", " ", "0", "8">>) \/ Contains(lowered, <<"o", "p", "0", "8">>)
            \/ Contains(lowered, <<"o", "p", " ", "8">>)
    THEN <<"O", "n", "e", " ", "P", "i", "e", "c", "e", " ", "-", " ", "O", "P", "0", "8">>
    ELSE <<"O", "n", "e", " ", "P", "i", "e", "c", "e">>

PremiumSet(lowered) ==
    IF Contains(lowered, <<"c", "h", "a", "r", "i", "z", "a", "r", "d">>) THEN <<"C", "h", "a", "r", "i", "z", "a", "r", "d", " ", "C", "o", "l", "l", "e", "c", "t", "i", "o", "n", "s">>
    ELSE IF Contains(lowered, <<"v", "e", "n", "u", "s", "a", "u", "r">>) THEN <<"V", "e", "n", "u", "s", "a", "u", "r", " ", "C", "o", "l", "l", "e", "c", "t", "i", "o", "n", "s">>
    ELSE IF Contains(lowered, <<"m", "o", "l", "t", "r", "e", "s">>) THEN <<"M", "o", "l", "t", "r", "e", "s", " ", "C", "o", "l", "l", "e", "c", "t", "i", "o", "n", "s">>
    ELSE <<"P", "r", "e", "m", "i", "u", "m", " ", "C", "o", "l", "l", "e", "c", "t", "i", "o", "n", "s">>

_extract_set_name(t) ==
    LET lowered == Lower(t)
        has(w) == Contains(lowered, w)
    IN  IF has(<<"r", "a", "n", "d", "o", "m", " ", "a", "s", "i", "a", "n", " ", "p", "a", "c", "k">>) \/ has(<<"g", "i", "v">>) THEN <<"G", "i", "v", "e", "a", "w", "a", "y", "s">>
        ELSE IF has(<<"p", "h", "a", "n", "t", "a", "s", "m", "a", "l", " ", "f", "l", "a", "m", "e", "s">>) \/ has(<<"p", "h", "a", "n", "t", "a", "s", "m", "a", "l">>) THEN <<"P", "h", "a", "n", "t", "a", "s", "m", "a", "l", " ", "F", "l", "a", "m", "e", "s">>
        ELSE IF has(<<"d", "e", "s", "t", "i", "n", "e", "d", " ", "r", "i", "v", "a", "l", "s">>) \/ has(<<"d", "e", "s", "t", "i", "n", "e", "d", " ", "r", "i", "v", "a", "l">>) THEN <<"D", "e", "s", "t", "i", "n", "e", "d", " ", "R", "i", "v", "a", "l", "s">>
        ELSE IF has(<<"p", "r", "i", "s", "m", "a", "t", "i", "c", " ", "e", "v", "o", "l", "u", "t", "i", "o", "n", "s">>) \/ has(<<"p", "r", "i", "s", "m", "a", "t", "i", "c">>)
        THEN <<"P", "r", "i", "s", "m", "a", "t", "i", "c", " ", "E", "v", "o", "l", "u", "t", "i", "o", "n", "s">>
        ELSE IF \/ has(<<"m", "e", "g", "a", " ", "e", "v", "o", "l", "u", "t", "i", "o", "n", "s">>) \/ has(<<"m", "e", "g", "a", " ", "e", "v", "o", "l", "u", "t", "i", "o", "n">>)
                \/ has(<<"m", "e", "g", "a", " ", "h", "e", "r", "o", "e", "s">>)
        THEN <<"M", "e", "g", "a", " ", "E", "v", "o", "l", "u", "t", "i", "o", "n", "s">>
        ELSE IF has(<<"c", "r", "o", "w", "n", " ", "z", "e", "n", "i", "t", "h">>) THEN <<"C", "r", "o", "w", "n", " ", "Z", "e", "n", "i", "t", "h">>
        ELSE IF has(<<"p", "a", "l", "d", "e", "a", "n", " ", "f", "a", "t", "e", "s">>) \/ has(<<"p", "a", "l", "d", "a", "e", "n", " ", "f", "a", "t", "e", "s">>) THEN <<"P", "a", "l", "d", "e", "a", "n", " ", "F", "a", "t", "e", "s">>
        ELSE IF has(<<"s", "u", "r", "g", "i", "n", "g", " ", "s", "p", "a", "r", "k", "s">>) THEN <<"S", "u", "r", "g", "i", "n", "g", " ", "S", "p", "a", "r", "k", "s">>
        ELSE IF has(<<"t", "w", "i", "l", "i", "g", "h", "t", " ", "m", "a", "s", "q", "u", "e", "r", "a", "d", "e">>) \/ has(<<"t", "w", "i", "l", "i", "g", "h", "t", " ", "m", "a", "s", "q", "e", "r", "a", "d", "e">>)
        THEN <<"T", "w", "i", "l", "i", "g", "h", "t", " ", "M", "a", "s", "q", "u", "e", "r", "a", "d", "e">>
        ELSE IF has(<<"s", "t", "e", "l", "l", "a", "r", " ", "c", "r", "o", "w", "n">>) THEN <<"S", "t", "e", "l", "l", "a", "r", " ", "C", "r", "o", "w", "n">>
        ELSE IF has(<<"s", "h", "r", "o", "u", "d", "e", "d", " ", "f", "a", "b", "l", "e", "s">>) THEN <<"S", "h", "r", "o", "u", "d", "e", "d", " ", "F", "a", "b", "l", "e", "s">>
        ELSE IF has(<<"j", "o", "u", "r", "n", "e", "y", " ", "t", "o", "g", "e", "t", "h", "e", "r">>) THEN <<"J", "o", "u", "r", "n", "e", "y", " ", "T", "o", "g", "e", "t", "h", "e", "r">>
        ELSE IF has(<<"b", "l", "a", "c", "k", " ", "b", "o", "l", "t">>) THEN <<"B", "l", "a", "c", "k", " ", "B", "o", "l", "t">>
        ELSE IF has(<<"w", "h", "i", "t", "e", " ", "f", "l", "a", "r", "e">>) THEN <<"W", "h", "i", "t", "e", " ", "F", "l", "a", "r", "e">>
        ELSE IF has(<<"t", "r", "i", "c", "k", " ", "o", "r", " ", "t", "r", "e", "a", "t">>) THEN <<"T", "r", "i", "c", "k", " ", "o", "r", " ", "T", "r", "e", "a", "t">>
        ELSE IF \/ has(<<"o", "n", "e", " ", "p", "i", "e", "c", "e">>) \/ has(<<"o", "p", " ">>) \/ has(<<"o", "p", "1", "4">>) \/ has(<<"o", "p", "1", "3">>)
                \/ has(<<"o", "p", "1", "2">>) \/ has(<<"o", "p", "1", "1">>) \/ has(<<"o", "p", "0", "8">>) \/ has(<<"o", "p", " ", "0", "8">>)
        THEN OnePieceSet(lowered)
        ELSE IF has(<<"p", "l", "u", "s", "h", " ", "c", "o", "l", "l", "e", "c", "t", "i", "o", "n">>) THEN <<"P", "l", "u", "s", "h", " ", "C", "o", "l", "l", "e", "c", "t", "i", "o", "n", "s">>
        ELSE IF has(<<"f", "i", "g", "u", "r", "e", " ", "c", "o", "l", "l", "e", "c", "t", "i", "o", "n">>) THEN <<"F", "i", "g", "u", "r", "e", " ", "C", "o", "l", "l", "e", "c", "t", "i", "o", "n", "s">>
        ELSE IF has(<<"p", "r", "e", "m", "i", "u", "m", " ", "c", "o", "l", "l", "e", "c", "t", "i", "o", "n">>) \/ has(<<"u", "p", "c">>) THEN PremiumSet(lowered)
        ELSE IF has(<<"b", "a", "t", "t", "l", "e", " ", "d", "e", "c", "k">>) THEN <<"B", "a", "t", "t", "l", "e", " ", "D", "e", "c", "k", "s">>
        ELSE IF has(<<"p", "o", "k", "e", " ", "b", "a", "l", "l", " ", "t", "i", "n">>) \/ has(<<"p", "o", "k", "e", "b", "a", "l", "l", " ", "t", "i", "n">>) THEN <<"P", "o", "k", "e", " ", "B", "a", "l", "l", " ", "T", "i", "n", "s">>
        ELSE IF has(<<"l", "u", "n", "c", "h", " ", "c", "h", "e", "s", "t">>) \/ has(<<"c", "o", "l", "l", "e", "c", "t", "o", "r", " ", "c", "h", "e", "s", "t">>) THEN <<"S", "t", "o", "r", "a", "g", "e", "/", "C", "h", "e", "s", "t", "s">>
        ELSE IF has(<<"s", "i", "n", "g", "l", "e">>) \/ has(<<"c", "a", "r", "d">>) THEN <<"S", "i", "n", "g", "l", "e", "s", "/", "C", "a", "r", "d", "s">>
        ELSE IF has(<<"u", "n", "o", "v", "a", " ", "h", "e", "a", "v", "y", " ", "h", "i", "t", "t", "e", "r", "s">>) THEN <<"U", "n", "o", "v", "a", " ", "H", "e", "a", "v", "y", " ", "H", "i", "t", "t", "e", "r", "s">>
        ELSE <<"O", "t", "h", "e", "r">>

\* str.title(): a cased character is upper case after an uncased one and lower
\* case after a cased one
Title(s) ==
    [i \in DOMAIN s |->
        IF s[i] \in UpperSet \cup LowerSet
        THEN IF i > 1 /\ s[i - 1] \in UpperSet \cup LowerSet
             THEN LowerChar(s[i])
             ELSE UpperChar(s[i])
        ELSE s[i]]

_format_display_title(normalized, mode) ==
    IF mode # "custom" THEN normalized
    ELSE IF normalized = GiveawayKey THEN <<"R", "a", "n", "d", "o", "m", " ", "A", "s", "i", "a", "n", " ", "P", "a", "c", "k">>
    ELSE Replace(Replace(Title(normalized), 1, <<"E", "t", "b">>, <<"E", "T", "B">>), 1, <<"U", "p", "c">>, <<"U", "P", "C">>)

\* group 1 of a match whose digits start at position at
Group(s, at) == SubSeq(s, at, SkipDigits(s, at) - 1)

_extract_pack_multiplier_for_display(t) ==
    LET lowered == Lower(t)
        m1 == XPackSearch(lowered)
        m2 == XSearch(lowered)
        m3 == PacksXSearch(lowered)
    IN  IF Contains(lowered, W_blister) THEN <<>>
        ELSE IF m1.found THEN <<" ", "-", " ">> \o Group(lowered, m1.at) \o <<"x", " ", "P", "a", "c", "k">>
        ELSE IF m2.found THEN <<" ", "-", " ">> \o Group(lowered, m2.at) \o <<"x">>
        ELSE IF m3.found THEN <<" ", "-", " ">> \o Group(lowered, m3.at) \o <<"x", " ", "P", "a", "c", "k">>
        ELSE <<>>

(***************************************************************************)
(* get_item_counts (app/services/reporting.py) over the transactions and   *)
(* product_images tables.  A transactions row here carries the columns the *)
(* report reads.                                                           *)
(***************************************************************************)
\* the characters of the alphabet in code point order
CodePoints ==
    <<"\t", " ", "!", "#", "-", ".", "/">> \o Digits \o <<":">> \o UpperChars \o <<"_">>
        \o LowerChars \o <<"é">>

Ord == [c \in Range(CodePoints) |-> CHOOSE i \in DOMAIN CodePoints : CodePoints[i] = c]

\* s < t on str, the characters before position k being equal
RECURSIVE StrLessFrom(_, _, _)
StrLessFrom(s, t, k) ==
    IF k > Len(t) THEN FALSE
    ELSE IF k > Len(s) THEN TRUE
    ELSE IF s[k] = t[k] THEN StrLessFrom(s, t, k + 1)
    ELSE Ord[s[k]] < Ord[t[k]]

StrLess(s, t) == StrLessFrom(s, t, 1)

\* the sort key of a report row: (item.get("set_name") or "ZZZ", item["listing_title"])
SortKey(item) ==
    <<IF item.set_name = None \/ item.set_name = <<>> THEN <<"Z", "Z", "Z">> ELSE item.set_name,
      item.listing_title>>

\* a < b on the key tuples
KeyLess(a, b) == StrLess(a[1], b[1]) \/ (a[1] = b[1] /\ StrLess(a[2], b[2]))

\* list.sort(key = ...): stable, so an item goes behind the items that are not greater
RECURSIVE SortByKey(_, _, _)
SortByKey(items, k, sorted) ==
    IF k > Len(items) THEN sorted
    ELSE LET behind == {i \in DOMAIN sorted : ~KeyLess(SortKey(items[k]), SortKey(sorted[i]))}
             n == IF behind = {} THEN 0 ELSE CHOOSE i \in behind : \A j \in behind : j <= i
         IN  SortByKey(items, k + 1,
                       SubSeq(sorted, 1, n) \o <<items[k]>> \o SubSeq(sorted, n + 1, Len(sorted)))

Qualifying_sales_only(table, include_non_sales) ==
    SelectSeq(table, LAMBDA tx : tx.is_sale)

\* the rows the SELECT returns: all of them with include_non_sales, else the sales
Qualifying(table, include_non_sales) ==
    SelectSeq(table, LAMBDA tx : include_non_sales \/ tx.is_sale)

Buyers == {<<"a", "s", "h">>, <<"m", "i", "s", "t", "y">>, None}

\* the orders in which a query may return the groups of one title
BuyerRanks == {rank \in [Buyers -> 1..Cardinality(Buyers)] :
                  \A a, b \in Buyers : a # b => rank[a] # rank[b]}

(***************************************************************************)
(* The stores the reports are taken of: transactions as the tests of the   *)
(* report ingest them, and curated product images.                         *)
(***************************************************************************)
SoldRows ==
    <<[order_id |-> "1", listing_title |-> <<"G", "i", "v", "y", "y", "y", "y", "y">>, buyer_name |-> <<"a", "s", "h">>,
       quantity_sold |-> 1, is_sale |-> FALSE],
      [order_id |-> "2", listing_title |-> <<"F", "r", "e", "e", ".", "9", "9", " ", "-", " ", "R", "a", "n", "d", "o", "m", " ", "P", "o", "k", "e", "m", "o", "n", " ", "P", "a", "c", "k", " ", "#", "2">>,
       buyer_name |-> <<"m", "i", "s", "t", "y">>, quantity_sold |-> 1, is_sale |-> FALSE],
      [order_id |-> "3", listing_title |-> <<"P", "h", "a", "n", "t", "a", "s", "m", "a", "l", " ", "F", "l", "a", "m", "e", "s", " ", "P", "a", "c", "k", " ", "#", "1">>,
       buyer_name |-> <<"a", "s", "h">>, quantity_sold |-> 1, is_sale |-> TRUE],
      [order_id |-> "4", listing_title |-> <<" ", " ", "p", "h", "a", "n", "t", "a", "s", "m", "a", "l", " ", " ", "f", "l", "a", "m", "e", "s", " ", "p", "a", "c", "k", " ", "#", "1", " ", " ">>,
       buyer_name |-> <<"m", "i", "s", "t", "y">>, quantity_sold |-> 2, is_sale |-> TRUE],
      [order_id |-> "5", listing_title |-> <<"F", "r", "i", "d", "a", "y", " ", "F", "i", "e", "s", "t", "a", " ", "-", " ", "R", "a", "n", "d", "o", "m", " ", "A", "s", "i", "a", "n", " ", "P", "a", "c", "k">>,
       buyer_name |-> None, quantity_sold |-> 1, is_sale |-> FALSE],
      [order_id |-> "6", listing_title |-> <<"2", "x", " ", "P", "a", "c", "k", " ", "-", " ", "C", "r", "o", "w", "n", " ", "Z", "e", "n", "i", "t", "h">>,
       buyer_name |-> <<"m", "i", "s", "t", "y">>, quantity_sold |-> 4, is_sale |-> TRUE],
      [order_id |-> "7", listing_title |-> <<"P", "i", "k", "a", "c", "h", "u", " ", "V">>, buyer_name |-> <<"a", "s", "h">>,
       quantity_sold |-> 2, is_sale |-> TRUE],
      [order_id |-> "8", listing_title |-> <<"K", "a", "n", "t", "o", " ", "C", "h", "r", "i", "s", "t", "m", "a", "s", " ", "G", "i", "f", "t", "s", " ", "-", " ", "A", "s", "i", "a", "n", " ", "P", "o", "k", "e", "m", "o", "n", " ", "P", "a", "c", "k">>,
       buyer_name |-> <<"a", "s", "h">>, quantity_sold |-> 1, is_sale |-> TRUE],
      [order_id |-> "9", listing_title |-> <<"C", "r", "o", "w", "n", " ", "Z", "e", "n", "i", "t", "h", " ", "P", "a", "c", "k">>, buyer_name |-> <<"a", "s", "h">>,
       quantity_sold |-> 1, is_sale |-> TRUE],
      [order_id |-> "10", listing_title |-> <<"2", "x", " ", "P", "a", "c", "k", " ", "-", " ", "C", "r", "o", "w", "n", " ", "Z", "e", "n", "i", "t", "h">>,
       buyer_name |-> <<"a", "s", "h">>, quantity_sold |-> 2, is_sale |-> TRUE],
      [order_id |-> "11", listing_title |-> <<"P", "o", "k", "é", "m", "o", "n", " ", "C", "a", "r", "d">>, buyer_name |-> None,
       quantity_sold |-> 1, is_sale |-> TRUE]>>

\* the rows of s at the positions of picked, in their order
RECURSIVE Pick(_, _, _)
Pick(s, picked, k) ==
    IF k > Len(s) THEN <<>>
    ELSE (IF k \in picked THEN <<s[k]>> ELSE <<>>) \o Pick(s, picked, k + 1)

\* the transactions tables: up to MaxRecords of the rows
MaxRecords == 4

SoldTables ==
    {Pick(SoldRows, picked, 1) :
        picked \in {p \in SUBSET DOMAIN SoldRows : Cardinality(p) <= MaxRecords}}

\* the product_images tables; normalized_item_name is unique, unit_cost is in cents
ProductImages ==
    {{},
     {[normalized_item_name |-> <<"c", "r", "o", "w", "n", " ", "z", "e", "n", "i", "t", "h", " ", "p", "a", "c", "k">>, image_url |-> <<"c", "z", ".", "p", "n", "g">>,
       description |-> <<"C", "r", "o", "w", "n", " ", "Z", "e", "n", "i", "t", "h", " ", "B", "o", "o", "s", "t", "e", "r">>, unit_cost |-> 450]},
     {[normalized_item_name |-> <<"r", "a", "n", "d", "o", "m", " ", "a", "s", "i", "a", "n", " ", "p", "a", "c", "k">>, image_url |-> <<"r", "a", "p", ".", "p", "n", "g">>,
       description |-> None, unit_cost |-> 100],
      [normalized_item_name |-> <<"p", "i", "k", "a", "c", "h", "u", " ", "v">>, image_url |-> None,
       description |-> <<"P", "i", "k", "a", "c", "h", "u", " ", "V", " ", "C", "a", "r", "d">>, unit_cost |-> 0],
      [normalized_item_name |-> <<"p", "h", "a", "n", "t", "a", "s", "m", "a", "l", " ", "f", "l", "a", "m", "e", "s", " ", "p", "a", "c", "k", " ", "#", "1">>, image_url |-> None,
       description |-> <<>>, unit_cost |-> 529]}}

\* the transactions of the allocation tests (tests/test_allocation.py sample_transactions)
SampleTransactions ==
    <<[order_id |-> "001", listing_title |-> <<"P", "h", "a", "n", "t", "a", "s", "m", "a", "l", " ", "F", "l", "a", "m", "e", "s", " ", "S", "l", "e", "e", "v", "e">>, buyer_name |-> None,
       quantity_sold |-> 100, is_sale |-> TRUE],
      [order_id |-> "002", listing_title |-> <<"P", "h", "a", "n", "t", "a", "s", "m", "a", "l", " ", "F", "l", "a", "m", "e", "s", " ", "E", "T", "B">>, buyer_name |-> None,
       quantity_sold |-> 5, is_sale |-> TRUE],
      [order_id |-> "003", listing_title |-> <<"M", "e", "g", "a", " ", "E", "v", "o", "l", "u", "t", "i", "o", "n", "s", " ", "S", "l", "e", "e", "v", "e">>, buyer_name |-> None,
       quantity_sold |-> 20, is_sale |-> TRUE]>>

\* the records of test_report_custom_rules with a Phantasmal Flames title (orders
\* 3, 4, 6 and 7), as ingestion stores them
CustomRows ==
    <<[order_id |-> "3", listing_title |-> <<"1", "X", " ", "P", "a", "c", "k", " ", "-", " ", "P", "h", "a", "n", "t", "a", "s", "m", "a", "l", " ", "F", "l", "a", "m", "e", "s", " ", "#", "1", "0">>,
       buyer_name |-> None, quantity_sold |-> 1, is_sale |-> TRUE],
      [order_id |-> "4", listing_title |-> <<"1", "x", " ", "P", "a", "c", "k", " ", "-", " ", "P", "h", "a", "n", "t", "a", "s", "m", "a", "l", " ", "F", "l", "a", "m", "e", "s", " ", "#", "1", "1">>,
       buyer_name |-> None, quantity_sold |-> 2, is_sale |-> TRUE],
      [order_id |-> "6", listing_title |-> <<"P", "h", "a", "n", "t", "a", "s", "m", "a", "l", " ", "F", "l", "a", "m", "e", "s", " ", "S", "l", "e", "e", "v", "e", "d", " ", "B", "o", "o", "s", "t", "e", "r", " ", "P", "a", "c", "k">>,
       buyer_name |-> None, quantity_sold |-> 1, is_sale |-> TRUE],
      [order_id |-> "7", listing_title |-> <<"P", "h", "a", "n", "t", "a", "s", "m", "a", "l", " ", "F", "l", "a", "m", "e", "s", " ", "S", "i", "n", "g", "l", "e", " ", "P", "a", "c", "k", " ", "B", "l", "i", "s", "t", "e", "r">>,
       buyer_name |-> None, quantity_sold |-> 1, is_sale |-> TRUE]>>

\* the titles of the stores of the model
ListingTitles ==
    {SoldRows[k].listing_title : k \in DOMAIN SoldRows}
        \cup {SampleTransactions[k].listing_title : k \in DOMAIN SampleTransactions}
        \cup {CustomRows[k].listing_title : k \in DOMAIN CustomRows}

TitleModes == {"exact", "case_insensitive", "aggressive", "custom"}

\* normalize_title, _format_display_title, _extract_set_name and
\* _extract_pack_multiplier_for_display of the titles of the stores, evaluated once
NormalizedTitle ==
    [mode \in TitleModes |-> [t \in ListingTitles |-> normalize_title(t, mode)]]

NormalizedKeys == {NormalizedTitle[mode][t] : mode \in TitleModes, t \in ListingTitles}

FormattedTitle ==
    [mode \in TitleModes |-> [key \in NormalizedKeys |-> _format_display_title(key, mode)]]

SetName == [key \in NormalizedKeys |-> _extract_set_name(key)]

PackSuffix ==
    [t \in ListingTitles \cup {<<>>} |-> _extract_pack_multiplier_for_display(t)]

\* the loop over the rows: counts[(normalized, buyer)] += quantity, the keys in the
\* order they are first seen
RECURSIVE CountRows(_, _, _, _, _)
CountRows(rows, k, group_by_buyer, title_match, counts) ==
    IF k > Len(rows) THEN counts
    ELSE LET normalized == NormalizedTitle[title_match][rows[k].listing_title]
             buyer == IF group_by_buyer THEN rows[k].buyer_name ELSE None
             hit == {i \in DOMAIN counts :
                        counts[i].normalized = normalized /\ counts[i].buyer = buyer}
         IN  CountRows(rows, k + 1, group_by_buyer, title_match,
                 IF hit = {}
                 THEN Append(counts, [normalized |-> normalized, buyer |-> buyer,
                                      quantity |-> rows[k].quantity_sold])
                 ELSE [counts EXCEPT ![CHOOSE i \in hit : TRUE].quantity =
                                          @ + rows[k].quantity_sold])

\* ORDER BY listing_title on the groups of a GROUP BY query; rank orders the groups
\* of equal title, which the query leaves open
RECURSIVE OrderByTitle(_, _, _, _)
OrderByTitle(groups, k, rank, ordered) ==
    IF k > Len(groups) THEN ordered
    ELSE LET g == groups[k]
             behind == {i \in DOMAIN ordered :
                           \/ StrLess(ordered[i].normalized, g.normalized)
                           \/ /\ ordered[i].normalized = g.normalized
                              /\ rank[ordered[i].buyer] < rank[g.buyer]}
             n == Cardinality(behind)
         IN  OrderByTitle(groups, k + 1, rank,
                          SubSeq(ordered, 1, n) \o <<g>> \o SubSeq(ordered, n + 1, Len(ordered)))

\* GROUP BY listing_title[, buyer_name] with SUM(quantity_sold), ORDER BY
\* listing_title
ExactGroups(rows, group_by_buyer, rank) ==
    OrderByTitle(CountRows(rows, 1, group_by_buyer, "exact", <<>>), 1, rank, <<>>)

\* original_titles.get(normalized, ""): the first title of the key that is not empty
OriginalTitle(rows, title_match, normalized) ==
    LET seen == {k \in DOMAIN rows :
                    /\ NormalizedTitle[title_match][rows[k].listing_title] = normalized
                    /\ Len(rows[k].listing_title) > 0}
    IN  IF seen = {} THEN <<>>
        ELSE rows[CHOOSE k \in seen : \A j \in seen : k <= j].listing_title

\* the product_images rows of a key; .first() takes one
ImageData(imgs, normalized) == {im \in imgs : im.normalized_item_name = normalized}

\* the pack suffix appended to a curated name too
ResultRow_suffix_always(count, rows, imgs, group_by_buyer, title_match) ==
    LET found == ImageData(imgs, count.normalized)
        image_data == CHOOSE im \in found : TRUE
        named == /\ found # {}
                 /\ image_data.description # None
                 /\ image_data.description # <<>>
    IN  [listing_title |->
             (IF named THEN image_data.description
              ELSE FormattedTitle[title_match][count.normalized])
                 \o PackSuffix[OriginalTitle(rows, title_match, count.normalized)],
         quantity_sold |-> count.quantity,
         buyer_name |-> IF group_by_buyer THEN count.buyer ELSE None,
         set_name |-> IF title_match = "custom" THEN SetName[count.normalized] ELSE None,
         image_url |-> IF found # {} THEN image_data.image_url ELSE None,
         unit_cost |-> IF found # {} THEN image_data.unit_cost ELSE 0,
         normalized_name |-> count.normalized]

\* the body of the loop over counts.items(): the display title is the description
\* of the product image when there is one, else the formatted key and the pack
\* suffix of the original title.  (The most common variant that the source looks
\* up first is overwritten in each of the three modes that come here.)
ResultRow(count, rows, imgs, group_by_buyer, title_match) ==
    LET found == ImageData(imgs, count.normalized)
        image_data == CHOOSE im \in found : TRUE
        named == /\ found # {}
                 /\ image_data.description # None
                 /\ image_data.description # <<>>
    IN  [listing_title |->
             IF named THEN image_data.description
             ELSE FormattedTitle[title_match][count.normalized]
                      \o PackSuffix[OriginalTitle(rows, title_match, count.normalized)],
         quantity_sold |-> count.quantity,
         buyer_name |-> IF group_by_buyer THEN count.buyer ELSE None,
         set_name |-> IF title_match = "custom" THEN SetName[count.normalized] ELSE None,
         image_url |-> IF found # {} THEN image_data.image_url ELSE None,
         unit_cost |-> IF found # {} THEN image_data.unit_cost ELSE 0,
         normalized_name |-> count.normalized]

\* the second half of get_item_counts, on the rows of the SELECT
CountedRows(rows, imgs, group_by_buyer, mode) ==
    CHOOSE results \in
        {SortByKey([n \in DOMAIN counts |->
                       ResultRow(counts[n], rows, imgs, group_by_buyer, mode)], 1, <<>>) :
            counts \in {CountRows(rows, 1, group_by_buyer, mode, <<>>)}} : TRUE

\* get_item_counts; rank is the order a GROUP BY query returns equal titles in
get_item_counts(table, imgs, group_by_buyer, include_non_sales, title_match, rank) ==
    LET mode == IF title_match \in TitleModes THEN title_match ELSE "exact"
    IN  CHOOSE results \in
            {IF mode = "exact"
             THEN CHOOSE results \in
                      {[n \in DOMAIN groups |->
                           IF group_by_buyer
                           THEN [listing_title |-> groups[n].normalized,
                                 quantity_sold |-> groups[n].quantity,
                                 buyer_name |-> groups[n].buyer]
                           ELSE [listing_title |-> groups[n].normalized,
                                 quantity_sold |-> groups[n].quantity]] :
                          groups \in {ExactGroups(rows, group_by_buyer, rank)}} : TRUE
             ELSE CountedRows(rows, imgs, group_by_buyer, mode) :
                rows \in {Qualifying(table, include_non_sales)}} : TRUE

(***************************************************************************)
(* Reports of a store                                                      *)
(***************************************************************************)
\* what --title-match and the title_match parameter of the web UI may carry
TitleMatches == TitleModes \cup {"fuzzy"}

NoReply == [op |-> "none"]

\* A report changes no table: the reports of a store are all taken of the store as
\* it is, which reaches every result a later report of it would give.
GetItemCounts(group_by_buyer, include_non_sales, title_match) ==
    \E rank \in IF group_by_buyer /\ title_match \in {"exact", "fuzzy"}
                THEN BuyerRanks
                ELSE {CHOOSE r \in BuyerRanks : TRUE} :
        /\ reply = NoReply
        /\ reply' = [op |-> "get_item_counts",
                     group_by_buyer |-> group_by_buyer,
                     include_non_sales |-> include_non_sales,
                     title_match |-> title_match,
                     results |-> get_item_counts(db, images, group_by_buyer,
                                                 include_non_sales, title_match, rank)]
        /\ UNCHANGED <<title, extracted, fs, db, last, nonSalesUsed, sess, images, allocations>>

InitReport ==
    /\ db \in SoldTables
    /\ images \in ProductImages
    /\ reply = NoReply
    /\ allocations = <<>>
    /\ title = [text |-> <<>>, tokens |-> 0]
    /\ extracted = NotExtracted
    /\ fs = <<>>
    /\ last = NoCall
    /\ nonSalesUsed = FALSE
    /\ sess = <<>>

NextReport ==
    \E group_by_buyer \in BOOLEAN, include_non_sales \in BOOLEAN, title_match \in TitleMatches :
        GetItemCounts(group_by_buyer, include_non_sales, title_match)

SpecReport == InitReport /\ [][NextReport]_vars

\* the stores of test_report_custom_rules: any of its Phantasmal Flames records
CustomTables == {Pick(CustomRows, picked, 1) : picked \in SUBSET DOMAIN CustomRows}

InitCustomRules ==
    /\ db \in CustomTables
    /\ images \in ProductImages
    /\ reply = NoReply
    /\ allocations = <<>>
    /\ title = [text |-> <<>>, tokens |-> 0]
    /\ extracted = NotExtracted
    /\ fs = <<>>
    /\ last = NoCall
    /\ nonSalesUsed = FALSE
    /\ sess = <<>>

SpecCustomRules == InitCustomRules /\ [][NextReport]_vars

(***************************************************************************)
(* _fuzzy_match_item_name (app/services/allocation.py)                     *)
(***************************************************************************)
\* the replacements dict, in its order
Replacements ==
    <<<<<<"p", "h", "a", "n", "t", "a", "s", "m", "a">>, <<"p", "h", "a", "n", "t", "a", "s", "m", "a", "l">>>>,
      <<<<"v", "e", "n", "a", "s", "a", "u", "r">>, <<"v", "e", "n", "u", "s", "a", "u", "r">>>>,
      <<<<"p", "o", "k", "e", "b", "a", "l", "l">>, <<"p", "o", "k", "e", " ", "b", "a", "l", "l">>>>,
      <<<<"k", "h", "a", "n", "g", "a", "s", "k", "h", "a", "n">>, <<"k", "a", "n", "g", "a", "s", "k", "h", "a", "n">>>>,
      <<<<"k", "a", "n", "g", "h", "a", "s", "k", "a", "n">>, <<"k", "a", "n", "g", "a", "s", "k", "h", "a", "n">>>>,
      <<<<"m", "a", "s", "q", "u", "r", "a", "d", "e">>, <<"m", "a", "s", "q", "u", "e", "r", "a", "d", "e">>>>,
      <<<<"m", "a", "s", "q", "e", "r", "a", "d", "e">>, <<"m", "a", "s", "q", "u", "e", "r", "a", "d", "e">>>>,
      <<<<"b", "o", "o", "s", "t", "e", "r", " ", "b", "o", "x">>, <<"b", "o", "o", "s", "t", "e", "r", " ", "b", "u", "n", "d", "l", "e">>>>,
      <<<<"3", "x", "p", "a", "c", "k">>, <<"3", " ", "p", "a", "c", "k">>>>,
      <<<<"s", "n", "e", "a", "s", "e", "l">>, <<"s", "n", "e", "a", "s", "e", "l">>>>,
      <<<<"u", "p", "c">>, <<"u", "l", "t", "r", "a", " ", "p", "r", "e", "m", "i", "u", "m", " ", "c", "o", "l", "l", "e", "c", "t", "i", "o", "n">>>>,
      <<<<"e", "l", "i", "t", "e", " ", "t", "r", "a", "i", "n", "e", "r", " ", "b", "o", "x">>, <<"e", "t", "b">>>>>>

NoiseWords == <<<<"e", "x">>, <<"p", "o", "k", "e", "m", "o", "n">>, <<"t", "h", "e">>>>

RECURSIVE ApplyReplacements(_, _)
ApplyReplacements(s, k) ==
    IF k > Len(Replacements) THEN s
    ELSE ApplyReplacements(Replace(s, 1, Replacements[k][1], Replacements[k][2]), k + 1)

RECURSIVE RemoveNoiseWords(_, _)
RemoveNoiseWords(s, k) ==
    IF k > Len(NoiseWords) THEN s
    ELSE RemoveNoiseWords(Replace(s, 1, <<" ">> \o NoiseWords[k] \o <<" ">>, <<" ">>), k + 1)

\* the Excel name as the scoring sees it
NormalizedExcel(excel_name) ==
    Collapse(RemoveNoiseWords(ApplyReplacements(Strip(Lower(excel_name)), 1), 1))

\* the position after the word that starts at i
RECURSIVE SkipWord(_, _)
SkipWord(s, i) == IF i <= Len(s) /\ ~IsSpace(s[i]) THEN SkipWord(s, i + 1) ELSE i

\* set(s.split()) from position i on
RECURSIVE Words(_, _)
Words(s, i) ==
    LET b == SkipSpaces(s, i)
    IN  IF b > Len(s) THEN {}
        ELSE {SubSeq(s, b, SkipWord(s, b) - 1)} \cup Words(s, SkipWord(s, b))

key_sets ==
    {<<"p", "h", "a", "n", "t", "a", "s", "m", "a", "l">>, <<"d", "e", "s", "t", "i", "n", "e", "d">>, <<"p", "r", "i", "s", "m", "a", "t", "i", "c">>, <<"m", "e", "g", "a">>, <<"s", "u", "r", "g", "i", "n", "g">>, <<"t", "w", "i", "l", "i", "g", "h", "t">>,
     <<"s", "t", "e", "l", "l", "a", "r">>, <<"c", "r", "o", "w", "n">>, <<"p", "a", "l", "d", "e", "a", "n">>, <<"b", "l", "a", "c", "k">>, <<"w", "h", "i", "t", "e">>, <<"s", "h", "r", "o", "u", "d", "e", "d">>, <<"u", "n", "o", "v", "a">>,
     <<"c", "h", "a", "r", "i", "z", "a", "r", "d">>, <<"v", "e", "n", "u", "s", "a", "u", "r">>, <<"l", "a", "t", "i", "a", "s">>, <<"l", "u", "c", "a", "r", "i", "o">>, <<"k", "a", "n", "g", "a", "s", "k", "h", "a", "n">>, <<"d", "i", "a", "n", "c", "i", "e">>,
     <<"m", "o", "l", "t", "r", "e", "s">>, <<"m", "e", "l", "m", "e", "t", "a", "l">>, <<"k", "y", "u", "r", "e", "m">>, <<"h", "y", "d", "r", "e", "i", "g", "o", "n">>, <<"d", "r", "a", "g", "a", "p", "u", "l", "t">>, <<"a", "r", "m", "a", "r", "o", "u", "g", "e">>,
     <<"s", "n", "e", "a", "s", "e", "l">>, <<"c", "o", "t", "t", "o", "n", "e", "e">>, <<"w", "h", "i", "m", "s", "i", "c", "o", "t", "t">>, <<"f", "l", "a", "m", "e", "s">>, <<"e", "v", "o", "l", "u", "t", "i", "o", "n", "s">>, <<"b", "o", "l", "t">>,
     <<"f", "l", "a", "r", "e">>, <<"f", "a", "b", "l", "e", "s">>, <<"s", "p", "a", "r", "k", "s">>, <<"m", "a", "s", "q", "u", "e", "r", "a", "d", "e">>, <<"f", "a", "t", "e", "s">>}

key_products ==
    {<<"s", "l", "e", "e", "v", "e">>, <<"b", "l", "i", "s", "t", "e", "r">>, <<"e", "t", "b">>, <<"b", "u", "n", "d", "l", "e">>, <<"t", "i", "n">>, <<"c", "o", "l", "l", "e", "c", "t", "i", "o", "n">>, <<"d", "e", "c", "k">>,
     <<"c", "h", "e", "s", "t">>, <<"f", "i", "g", "u", "r", "e">>, <<"p", "l", "u", "s", "h">>, <<"b", "o", "o", "s", "t", "e", "r">>, <<"e", "l", "i", "t", "e">>, <<"t", "r", "a", "i", "n", "e", "r">>, <<"b", "o", "x">>,
     <<"p", "r", "e", "m", "i", "u", "m">>, <<"u", "l", "t", "r", "a">>, <<"b", "a", "t", "t", "l", "e">>}

\* the score of one inventory item, and whether it shares a set or product word
Score(normalized_excel, excel_words, inv_item) ==
    LET inv_lower == Lower(inv_item)
        inv_words == Words(inv_lower, 1)
        common_sets == (excel_words \cap key_sets) \cap inv_words
        common_products == (excel_words \cap key_products) \cap inv_words
        diff == Cardinality(excel_words) - Cardinality(inv_words)
    IN  [score |-> Cardinality(common_sets) * 3
                     + Cardinality(common_products) * 2
                     + Cardinality(excel_words \cap inv_words)
                     + (IF Contains(inv_lower, normalized_excel)
                           \/ Contains(normalized_excel, inv_lower) THEN 2 ELSE 0)
                     - (IF diff > 3 \/ diff < -3 THEN 1 ELSE 0),
         keyed |-> common_sets # {} \/ common_products # {}]

\* the scoring loop: the first item of the highest score wins
RECURSIVE BestMatch(_, _, _, _, _)
BestMatch(normalized_excel, excel_words, inventory_items, k, best) ==
    IF k > Len(inventory_items) THEN best
    ELSE LET s == Score(normalized_excel, excel_words, inventory_items[k])
         IN  BestMatch(normalized_excel, excel_words, inventory_items, k + 1,
                       IF s.keyed /\ s.score > best.score
                       THEN [score |-> s.score, match |-> inventory_items[k]]
                       ELSE best)

\* _fuzzy_match_item_name; None when nothing matches
_fuzzy_match_item_name(excel_name, inventory_items) ==
    LET excel_lower == Strip(Lower(excel_name))
        normalized_excel == NormalizedExcel(excel_name)
        exact == {k \in DOMAIN inventory_items :
                     \/ Lower(inventory_items[k]) = excel_lower
                     \/ Lower(inventory_items[k]) = normalized_excel}
        best == BestMatch(normalized_excel, Words(normalized_excel, 1), inventory_items, 1,
                          [score |-> 0, match |-> None])
    IN  IF exact # {}
        THEN inventory_items[CHOOSE k \in exact : \A j \in exact : k <= j]
        ELSE IF best.score >= 4 THEN best.match
        ELSE None

(***************************************************************************)
(* The admin requests of the dashboard (app/ui.py do_POST).  A request is  *)
(* the JSON object of its body, a record of the keys it carries.           *)
(***************************************************************************)
\* not data.get(key): the key is missing or its text is empty
NoText(data, key) == key \notin DOMAIN data \/ data[key] = <<>>

\* not data.get(key) of a number: the key is missing or it is zero
NoNumber(data, key) == key \notin DOMAIN data \/ data[key] = 0

\* the transactions that a request names:
\* normalize_title(tx.listing_title, "custom") == item_name.lower()
MatchingIds(table, item_name) ==
    {k \in DOMAIN table :
        NormalizedTitle["custom"][table[k].listing_title] = Lower(item_name)}

\* _handle_update_quantity: the first matching transaction takes the new quantity,
\* the others take 0
_handle_update_quantity(table, data) ==
    IF NoText(data, "item_name") \/ "quantity" \notin DOMAIN data
    THEN [status |-> 400, transactions |-> table]
    ELSE LET matching_ids == MatchingIds(table, data.item_name)
         IN  IF matching_ids = {}
             THEN [status |-> 404, transactions |-> table]
             ELSE [status |-> 200,
                   transactions |->
                       [k \in DOMAIN table |->
                           IF k \notin matching_ids THEN table[k]
                           ELSE [table[k] EXCEPT !.quantity_sold =
                                    IF \A j \in matching_ids : k <= j
                                    THEN data.quantity ELSE 0]]]

\* the transactions that stay
RECURSIVE Remaining(_, _, _)
Remaining(table, matching_ids, k) ==
    IF k > Len(table) THEN <<>>
    ELSE (IF k \in matching_ids THEN <<>> ELSE <<table[k]>>)
             \o Remaining(table, matching_ids, k + 1)

\* _handle_delete_item
_handle_delete_item(table, data) ==
    IF NoText(data, "item_name")
    THEN [status |-> 400, transactions |-> table]
    ELSE LET matching_ids == MatchingIds(table, data.item_name)
         IN  IF matching_ids = {}
             THEN [status |-> 404, transactions |-> table]
             ELSE [status |-> 200, transactions |-> Remaining(table, matching_ids, 1)]

\* get_unit_cost_for_item (app/services/allocation.py), in cents
get_unit_cost_for_item(imgs, normalized_item_name) ==
    LET found == ImageData(imgs, normalized_item_name)
    IN  IF found # {} /\ (CHOOSE im \in found : TRUE).unit_cost # 0
        THEN (CHOOSE im \in found : TRUE).unit_cost
        ELSE 0

\* the item names that the requests of the model carry: the key of an item of
\* every store, the title of one, the key of an item of two records, and a key
\* of no record
ItemNames ==
    {<<"p", "h", "a", "n", "t", "a", "s", "m", "a", "l", " ", "f", "l", "a", "m", "e", "s", " ", "s", "l", "e", "e", "v", "e">>,
     <<"M", "e", "g", "a", " ", "E", "v", "o", "l", "u", "t", "i", "o", "n", "s", " ", "S", "l", "e", "e", "v", "e">>,
     <<"p", "h", "a", "n", "t", "a", "s", "m", "a", "l", " ", "f", "l", "a", "m", "e", "s", " ", "p", "a", "c", "k">>,
     <<"p", "i", "k", "a", "c", "h", "u", " ", "v">>}

UpdatedNames ==
    {<<"p", "h", "a", "n", "t", "a", "s", "m", "a", "l", " ", "f", "l", "a", "m", "e", "s", " ", "p", "a", "c", "k">>,
     <<"p", "i", "k", "a", "c", "h", "u", " ", "v">>}

DeletedNames ==
    {<<"p", "h", "a", "n", "t", "a", "s", "m", "a", "l", " ", "f", "l", "a", "m", "e", "s", " ", "s", "l", "e", "e", "v", "e">>,
     <<"p", "i", "k", "a", "c", "h", "u", " ", "v">>}

AssignedNames ==
    {<<"M", "e", "g", "a", " ", "E", "v", "o", "l", "u", "t", "i", "o", "n", "s", " ", "S", "l", "e", "e", "v", "e">>,
     <<"p", "i", "k", "a", "c", "h", "u", " ", "v">>}

\* normalize_title(item_name.lower(), "custom") of the names of the requests
AssignKey == [item_name \in ItemNames |-> normalize_title(Lower(item_name), "custom")]

\* the allocations of an item and owner; .scalar() takes the first
ExistingAllocations(allocs, normalized_name, owner) ==
    {k \in DOMAIN allocs : /\ allocs[k].normalized_item_name = normalized_name
                           /\ allocs[k].owner = owner}

\* _handle_assign
_handle_assign(allocs, imgs, data) ==
    IF NoText(data, "item_name") \/ NoText(data, "owner") \/ NoNumber(data, "quantity")
    THEN [status |-> 400, allocations |-> allocs]
    ELSE LET normalized_name == AssignKey[data.item_name]
             existing == ExistingAllocations(allocs, normalized_name, data.owner)
             first == CHOOSE k \in existing : \A j \in existing : k <= j
         IN  [status |-> 200,
              allocations |->
                  IF existing # {}
                  THEN [allocs EXCEPT ![first].allocated_quantity = @ + data.quantity]
                  ELSE Append(allocs,
                              [normalized_item_name |-> normalized_name,
                               owner |-> data.owner,
                               allocated_quantity |-> data.quantity,
                               unit_cost |-> get_unit_cost_for_item(imgs, normalized_name),
                               excel_item_name |-> data.item_name])]

\* the owner of the assign requests
AssignedOwners == {<<"C", "i", "h", "a", "n">>}

\* the requests of the model: every key present or missing
UpdateQuantityRequests ==
    {[item_name |-> n, quantity |-> q] : n \in UpdatedNames, q \in {0, 7}}
        \cup {[item_name |-> n] : n \in UpdatedNames} \cup {[quantity |-> 7]}

DeleteItemRequests == {[item_name |-> n] : n \in DeletedNames \cup {<<>>}}

AssignRequests ==
    {[item_name |-> n, owner |-> o, quantity |-> q] :
        n \in AssignedNames, o \in AssignedOwners, q \in {0, 1}}
        \cup {[item_name |-> n, quantity |-> 1] : n \in AssignedNames}

\* the largest quantity that the assign requests of the model build up
MaxAssigned == 2

HandleUpdateQuantity(data) ==
    \E out \in {_handle_update_quantity(db, data)} :
        /\ reply' = [op |-> "update-quantity", data |-> data, status |-> out.status]
        /\ db' = out.transactions
        /\ UNCHANGED <<title, extracted, fs, last, nonSalesUsed, sess, images, allocations>>

HandleDeleteItem(data) ==
    \E out \in {_handle_delete_item(db, data)} :
        /\ reply' = [op |-> "delete-item", data |-> data, status |-> out.status]
        /\ db' = out.transactions
        /\ UNCHANGED <<title, extracted, fs, last, nonSalesUsed, sess, images, allocations>>

HandleAssign(data) ==
    \E out \in {_handle_assign(allocations, images, data)} :
        /\ \A k \in DOMAIN allocations :
               allocations[k].allocated_quantity # out.allocations[k].allocated_quantity
                   => allocations[k].allocated_quantity < MaxAssigned
        /\ reply' = [op |-> "assign", data |-> data, status |-> out.status]
        /\ allocations' = out.allocations
        /\ UNCHANGED <<title, extracted, fs, db, last, nonSalesUsed, sess, images>>

\* the stores of the admin requests: the sample transactions, alone and with two
\* records of one more item
SampleStores ==
    {SampleTransactions,
     SubSeq(SampleTransactions, 1, 2),
     SampleTransactions \o SubSeq(SoldRows, 3, 4)}

\* the curated metadata of the sample items
SampleImages ==
    {{},
     {[normalized_item_name |-> <<"p", "h", "a", "n", "t", "a", "s", "m", "a", "l", " ", "f", "l", "a", "m", "e", "s", " ", "s", "l", "e", "e", "v", "e">>, image_url |-> <<"p", "f", "s", ".", "p", "n", "g">>,
       description |-> None, unit_cost |-> 450]},
     {[normalized_item_name |-> <<"m", "e", "g", "a", " ", "e", "v", "o", "l", "u", "t", "i", "o", "n", "s", " ", "s", "l", "e", "e", "v", "e">>, image_url |-> None,
       description |-> <<"M", "e", "g", "a", " ", "S", "l", "e", "e", "v", "e">>, unit_cost |-> 0]}}

InitAdmin ==
    /\ db \in SampleStores
    /\ images \in SampleImages
    /\ allocations = <<>>
    /\ reply = NoReply
    /\ title = [text |-> <<>>, tokens |-> 0]
    /\ extracted = NotExtracted
    /\ fs = <<>>
    /\ last = NoCall
    /\ nonSalesUsed = FALSE
    /\ sess = <<>>

NextAdmin ==
    \/ \E data \in UpdateQuantityRequests : HandleUpdateQuantity(data)
    \/ \E data \in DeleteItemRequests : HandleDeleteItem(data)
    \/ \E data \in AssignRequests : HandleAssign(data)

SpecAdmin == InitAdmin /\ [][NextAdmin]_vars

(***************************************************************************)
(* Bulk import of allocations and the allocation summary                   *)
(* (app/services/allocation.py).  Costs are in cents; a cell that is empty *)
(* is a key that the record of the row does not carry.                     *)
(***************************************************************************)
\* the workbooks at their paths: a sheet per owner, the rows below the header
ExcelFiles ==
    [dry_run |->
        <<[owner |-> <<"C", "i", "h", "a", "n">>,
           rows |-> <<[item_name |-> <<"P", "h", "a", "n", "t", "a", "s", "m", "a", " ", "F", "l", "a", "m", "e", "s", " ", "S", "l", "e", "e", "v", "e">>, cost |-> 529, count |-> 50],
                      [item_name |-> <<"M", "e", "g", "a", " ", "E", "v", "o", "l", "u", "t", "i", "o", "n", "s", " ", "S", "l", "e", "e", "v", "e">>, cost |-> 529, count |-> 10]>>],
          [owner |-> <<"N", "i", "m", "a">>,
           rows |-> <<[item_name |-> <<"P", "h", "a", "n", "t", "a", "s", "m", "a", " ", "F", "l", "a", "m", "e", "s", " ", "E", "T", "B">>, cost |-> 5300, count |-> 2]>>]>>,
     real |->
        <<[owner |-> <<"C", "i", "h", "a", "n">>,
           rows |-> <<[item_name |-> <<"P", "h", "a", "n", "t", "a", "s", "m", "a", " ", "F", "l", "a", "m", "e", "s", " ", "S", "l", "e", "e", "v", "e">>, cost |-> 529, count |-> 50]>>]>>,
     over |->
        <<[owner |-> <<"C", "i", "h", "a", "n">>,
           rows |-> <<[item_name |-> <<"P", "h", "a", "n", "t", "a", "s", "m", "a", "l", " ", "F", "l", "a", "m", "e", "s", " ", "S", "l", "e", "e", "v", "e">>, cost |-> 529, count |-> 60],
                      [item_name |-> <<" ", "P", "h", "a", "n", "t", "a", "s", "m", "a", "l", " ", "F", "l", "a", "m", "e", "s", " ", "E", "l", "i", "t", "e", " ", "T", "r", "a", "i", "n", "e", "r", " ", "B", "o", "x", " ">>, count |-> 5],
                      [cost |-> 100, count |-> 3]>>],
          [owner |-> <<"N", "i", "m", "a">>,
           rows |-> <<[item_name |-> <<"P", "h", "a", "n", "t", "a", "s", "m", "a", " ", "F", "l", "a", "m", "e", "s", " ", "S", "l", "e", "e", "v", "e">>, cost |-> 529, count |-> 50],
                      [item_name |-> <<"P", "h", "a", "n", "t", "a", "s", "m", "a", "l", " ", "F", "l", "a", "m", "e", "s", " ", "S", "l", "e", "e", "v", "e">>, cost |-> 0, count |-> 10],
                      [item_name |-> <<"R", "a", "n", "d", "o", "m", " ", "I", "t", "e", "m", " ", "T", "h", "a", "t", " ", "D", "o", "e", "s", "n", "'", "t", " ", "E", "x", "i", "s", "t">>, cost |-> 100, count |-> 1],
                      [item_name |-> <<"M", "e", "g", "a", " ", "E", "v", "o", "l", "u", "t", "i", "o", "n", "s", " ", "S", "l", "e", "e", "v", "e">>, cost |-> 529, count |-> 0]>>]>>,
     twice |->
        <<[owner |-> <<"C", "i", "h", "a", "n">>,
           rows |-> <<[item_name |-> <<"P", "h", "a", "n", "t", "a", "s", "m", "a", "l", " ", "F", "l", "a", "m", "e", "s", " ", "S", "l", "e", "e", "v", "e">>, cost |-> 529, count |-> 10],
                      [item_name |-> <<"P", "h", "a", "n", "t", "a", "s", "m", "a", " ", "F", "l", "a", "m", "e", "s", " ", "S", "l", "e", "e", "v", "e">>, cost |-> 529, count |-> 20],
                      [item_name |-> <<"M", "e", "g", "a", " ", "S", "l", "e", "e", "v", "e">>, cost |-> 100, count |-> 21]>>]>>]

\* the paths of the calls; the last one is of no file
ExcelPaths == DOMAIN ExcelFiles \cup {"missing"}

\* the rows of the sheets in the order of the two loops, each with its owner
RECURSIVE SheetRows(_, _)
SheetRows(wb, k) ==
    IF k > Len(wb) THEN <<>>
    ELSE [n \in DOMAIN wb[k].rows |-> [owner |-> wb[k].owner, row |-> wb[k].rows[n]]]
             \o SheetRows(wb, k + 1)

\* the rows that the loop does not skip
Usable(row) == ~NoText(row, "item_name") /\ ~NoNumber(row, "count")

\* list(inventory_dict.keys()): the titles of the items, each once, in the order
\* they come first
RECURSIVE DictKeys(_, _)
DictKeys(items, k) ==
    IF k > Len(items) THEN <<>>
    ELSE (IF \E j \in 1..(k - 1) : items[j].listing_title = items[k].listing_title
          THEN <<>> ELSE <<items[k].listing_title>>) \o DictKeys(items, k + 1)

\* inventory_dict[name]: the last item of the title
DictItem(items, name) ==
    items[CHOOSE k \in DOMAIN items :
              /\ items[k].listing_title = name
              /\ \A j \in DOMAIN items : items[j].listing_title = name => j <= k]

\* the inventory of the import and of the summary
Inventory(table, imgs) ==
    get_item_counts(table, imgs, FALSE, TRUE, "custom", CHOOSE r \in BuyerRanks : TRUE)

\* the lists of inventory names of the stores of the model, the names of the
\* workbooks, and _fuzzy_match_item_name and normalize_title of them, evaluated once
InventoryLists ==
    {DictKeys(Inventory(table, imgs), 1) : table \in SampleStores, imgs \in SampleImages}

ExcelNames ==
    {Strip(sr.row.item_name) :
        sr \in {sr \in UNION {Range(SheetRows(ExcelFiles[p], 1)) : p \in DOMAIN ExcelFiles} :
                   Usable(sr.row)}}

MatchedName ==
    [names \in InventoryLists |->
        [excel_name \in ExcelNames |-> _fuzzy_match_item_name(excel_name, names)]]

InventoryKey ==
    [name \in UNION {Range(names) : names \in InventoryLists} |->
        normalize_title(Lower(name), "custom")]

\* float(cost) if cost else 0.0
CostOf(row) == IF "cost" \in DOMAIN row THEN row.cost ELSE 0

\* total_allocated_per_item.get(name, 0)
TotalOf(totals, name) == IF name \in DOMAIN totals THEN totals[name] ELSE 0

\* the unit cost of an entry: the cost of the database before the cost of the sheet
FinalUnitCost(db_unit_cost, row) == IF db_unit_cost > 0 THEN db_unit_cost ELSE CostOf(row)

\* a row that names an inventory item: the running total of the item grows, and
\* the row is over-allocated when the total exceeds the available quantity
MatchedEntry(acc, owner, item_name, matched_name, allocated_qty, available, final_unit_cost, total) ==
    IF total > available
    THEN [acc EXCEPT
             !.totals = (matched_name :> total) @@ @,
             !.over_allocated =
                 Append(@, [excel_name |-> item_name,
                            inventory_name |-> matched_name,
                            owner |-> owner,
                            allocated_quantity |-> allocated_qty,
                            available_quantity |-> available,
                            total_allocated |-> total,
                            unit_cost |-> final_unit_cost])]
    ELSE [acc EXCEPT
             !.totals = (matched_name :> total) @@ @,
             !.matched =
                 Append(@, [excel_name |-> item_name,
                            inventory_name |-> matched_name,
                            owner |-> owner,
                            allocated_quantity |-> allocated_qty,
                            unit_cost |-> final_unit_cost,
                            available_quantity |-> available])]

\* a row that the loop does not skip, with the name that the match gave
MatchedRow(acc, items, imgs, owner, row, item_name, matched_name) ==
    IF matched_name = None
    THEN [acc EXCEPT !.unmatched =
             Append(@, [excel_name |-> item_name, owner |-> owner,
                        allocated_quantity |-> row.count, unit_cost |-> CostOf(row)])]
    ELSE MatchedEntry(acc, owner, item_name, matched_name, row.count,
                      DictItem(items, matched_name).quantity_sold,
                      FinalUnitCost(get_unit_cost_for_item(imgs, InventoryKey[matched_name]),
                                    row),
                      TotalOf(acc.totals, matched_name) + row.count)

\* the body of the loop over the rows of a sheet
ImportRow(acc, items, imgs, owner, row) ==
    IF ~Usable(row) THEN acc
    ELSE MatchedRow(acc, items, imgs, owner, row, Strip(row.item_name),
                    MatchedName[DictKeys(items, 1)][Strip(row.item_name)])

\* the two loops over the sheets and their rows
RECURSIVE ImportRows(_, _, _, _, _)
ImportRows(acc, items, imgs, rows, k) ==
    IF k > Len(rows) THEN acc
    ELSE ImportRows(ImportRow(acc, items, imgs, rows[k].owner, rows[k].row),
                    items, imgs, rows, k + 1)

\* sum(entry['allocated_quantity'] for entry in entries)
RECURSIVE SumQuantities(_, _)
SumQuantities(entries, k) ==
    IF k > Len(entries) THEN 0
    ELSE entries[k].allocated_quantity + SumQuantities(entries, k + 1)

\* the Allocation rows that the import adds
NewAllocations_over_too(found) ==
    [k \in DOMAIN (found.matched \o found.over_allocated) |->
        [normalized_item_name |-> (found.matched \o found.over_allocated)[k].inventory_name,
         owner |-> (found.matched \o found.over_allocated)[k].owner,
         allocated_quantity |-> (found.matched \o found.over_allocated)[k].allocated_quantity,
         unit_cost |-> (found.matched \o found.over_allocated)[k].unit_cost,
         excel_item_name |-> (found.matched \o found.over_allocated)[k].excel_name]]

NewAllocations(found) ==
    [k \in DOMAIN found.matched |->
        [normalized_item_name |-> found.matched[k].inventory_name,
         owner |-> found.matched[k].owner,
         allocated_quantity |-> found.matched[k].allocated_quantity,
         unit_cost |-> found.matched[k].unit_cost,
         excel_item_name |-> found.matched[k].excel_name]]

\* the allocations table after the call
Persisted_always(allocs, found, dry_run) == NewAllocations(found)

Persisted(allocs, found, dry_run) == IF dry_run THEN allocs ELSE NewAllocations(found)

\* the dict that the import returns
ImportResult(found) ==
    [matched |-> found.matched,
     unmatched |-> found.unmatched,
     over_allocated |-> found.over_allocated,
     total_allocated |-> SumQuantities(found.matched, 1),
     total_unmatched |-> SumQuantities(found.unmatched, 1),
     total_over_allocated |-> SumQuantities(found.over_allocated, 1)]

\* import_allocations_from_excel on a workbook that exists
import_allocations_from_excel(table, imgs, allocs, wb, dry_run) ==
    CHOOSE out \in
        {[allocations |-> Persisted(allocs, found, dry_run),
          result |-> ImportResult(found)] :
            found \in {ImportRows([matched |-> <<>>, unmatched |-> <<>>,
                                   over_allocated |-> <<>>, totals |-> <<>>],
                                  Inventory(table, imgs), imgs,
                                  SheetRows(wb, 1), 1)}} : TRUE

\* the allocations of a normalized name, in the order of the table
RECURSIVE ItemAllocations(_, _, _)
ItemAllocations(allocs, normalized_name, k) ==
    IF k > Len(allocs) THEN <<>>
    ELSE (IF allocs[k].normalized_item_name = normalized_name THEN <<allocs[k]>> ELSE <<>>)
             \o ItemAllocations(allocs, normalized_name, k + 1)

\* the summary of one item of inventory_dict
ItemSummary(item_name, item_data, allocs) ==
    LET item_allocations == ItemAllocations(allocs, item_data.normalized_name, 1)
        total_allocated == SumQuantities(item_allocations, 1)
    IN  [item_name |-> item_name,
         normalized_name |-> item_data.normalized_name,
         total_quantity |-> item_data.quantity_sold,
         total_allocated |-> total_allocated,
         remaining |-> item_data.quantity_sold - total_allocated,
         set_name |-> item_data.set_name,
         image_url |-> item_data.image_url,
         unit_cost |-> item_data.unit_cost,
         allocations |-> [k \in DOMAIN item_allocations |->
                             [owner |-> item_allocations[k].owner,
                              quantity |-> item_allocations[k].allocated_quantity,
                              unit_cost |-> item_allocations[k].unit_cost]]]

\* the loop over inventory_dict.items()
RECURSIVE SummaryItems(_, _, _, _)
SummaryItems(items, names, allocs, k) ==
    IF k > Len(names) THEN <<>>
    ELSE <<ItemSummary(names[k], DictItem(items, names[k]), allocs)>>
             \o SummaryItems(items, names, allocs, k + 1)

\* the entries of a list that pass a test of their summary
RECURSIVE AllocatedItems(_, _)
AllocatedItems(summaries, k) ==
    IF k > Len(summaries) THEN <<>>
    ELSE (IF summaries[k].total_allocated > 0
          THEN <<[f \in DOMAIN summaries[k] \ {"unit_cost"} |-> summaries[k][f]]>>
          ELSE <<>>) \o AllocatedItems(summaries, k + 1)

RECURSIVE UnallocatedItems(_, _)
UnallocatedItems(summaries, k) ==
    IF k > Len(summaries) THEN <<>>
    ELSE (IF summaries[k].remaining >= 0
          THEN <<[item_name |-> summaries[k].item_name,
                  quantity |-> summaries[k].remaining,
                  set_name |-> summaries[k].set_name,
                  image_url |-> summaries[k].image_url,
                  unit_cost |-> summaries[k].unit_cost,
                  normalized_name |-> summaries[k].normalized_name]>>
          ELSE <<>>) \o UnallocatedItems(summaries, k + 1)

RECURSIVE SumField(_, _, _)
SumField(entries, field, k) ==
    IF k > Len(entries) THEN 0
    ELSE entries[k][field] + SumField(entries, field, k + 1)

\* owner_totals: the quantity and the number of the allocations of each owner
OwnerTotals(allocs) ==
    [owner \in {allocs[k].owner : k \in DOMAIN allocs} |->
        [count |-> SumQuantities(SelectSeq(allocs, LAMBDA a : a.owner = owner), 1),
         items |-> Len(SelectSeq(allocs, LAMBDA a : a.owner = owner))]]

\* get_allocation_summary
get_allocation_summary(table, imgs, allocs) ==
    CHOOSE summary \in
        {[allocated_items |-> AllocatedItems(summaries, 1),
          unallocated_items |-> unallocated_items,
          owner_totals |-> OwnerTotals(allocs),
          total_inventory |-> SumField(Inventory(table, imgs), "quantity_sold", 1),
          total_allocated |-> SumQuantities(allocs, 1),
          total_unallocated |-> SumField(unallocated_items, "quantity", 1)] :
            <<summaries, unallocated_items>> \in
                {<<s, UnallocatedItems(s, 1)>> :
                    s \in {SummaryItems(items, DictKeys(items, 1), allocs, 1) :
                              items \in {Inventory(table, imgs)}}}} : TRUE

\* a call of the import: of a dry run or not, of a workbook or of a path of no file
ImportAllocations(path, dry_run) ==
    IF path \notin DOMAIN ExcelFiles
    THEN /\ reply' = [op |-> "import_allocations_from_excel", path |-> path,
                      dry_run |-> dry_run, raised |-> "FileNotFoundError"]
         /\ UNCHANGED <<title, extracted, fs, db, last, nonSalesUsed, sess, images, allocations>>
    ELSE \E out \in {import_allocations_from_excel(db, images, allocations,
                                                   ExcelFiles[path], dry_run)} :
             /\ reply' = [op |-> "import_allocations_from_excel", path |-> path,
                          dry_run |-> dry_run, raised |-> "none", result |-> out.result]
             /\ allocations' = out.allocations
             /\ UNCHANGED <<title, extracted, fs, db, last, nonSalesUsed, sess, images>>

GetAllocationSummary ==
    /\ reply' = [op |-> "get_allocation_summary",
                 summary |-> get_allocation_summary(db, images, allocations)]
    /\ UNCHANGED <<title, extracted, fs, db, last, nonSalesUsed, sess, images, allocations>>

InitAllocation == InitAdmin

NextAllocation ==
    \/ \E path \in ExcelPaths, dry_run \in BOOLEAN : ImportAllocations(path, dry_run)
    \/ GetAllocationSummary
    \/ \E data \in AssignRequests : HandleAssign(data)

SpecAllocation == InitAllocation /\ [][NextAllocation]_vars

(***************************************************************************)
(* The allocation requests of the dashboard (app/ui.py).  The server is a  *)
(* ThreadingHTTPServer: every request runs on a thread and a session of    *)
(* its own.  An assign request reads the allocation of its item and owner  *)
(* and writes what it computed from that row when it commits; the other    *)
(* requests are followed as one step each.                                 *)
(***************************************************************************)
\* the rows of allocs without those at the positions of D
RECURSIVE DeleteRows(_, _, _)
DeleteRows(allocs, D, k) ==
    IF k > Len(allocs) THEN <<>>
    ELSE (IF k \in D THEN <<>> ELSE <<allocs[k]>>) \o DeleteRows(allocs, D, k + 1)

\* _handle_update_allocated_quantity; scalar_one_or_none() raises when it finds
\* more than one row, which the handler answers with 500
_handle_update_allocated_quantity(allocs, data) ==
    IF NoText(data, "normalized_name") \/ NoText(data, "owner") \/ "quantity" \notin DOMAIN data
    THEN [status |-> 400, allocations |-> allocs, deleted |-> {}]
    ELSE LET existing == ExistingAllocations(allocs, data.normalized_name, data.owner)
         IN  IF Cardinality(existing) > 1
             THEN [status |-> 500, allocations |-> allocs, deleted |-> {}]
             ELSE IF existing = {}
             THEN [status |-> 404, allocations |-> allocs, deleted |-> {}]
             ELSE IF data.quantity = 0
             THEN [status |-> 200, allocations |-> DeleteRows(allocs, existing, 1),
                   deleted |-> existing]
             ELSE [status |-> 200,
                   allocations |-> [k \in DOMAIN allocs |->
                                       IF k \in existing
                                       THEN [allocs[k] EXCEPT !.allocated_quantity = data.quantity]
                                       ELSE allocs[k]],
                   deleted |-> {}]

\* the target of a move: the row of to_owner gets the quantity of the request
\* added, or a new row carries it.  after is the table without the source row
MoveTarget(after, imgs, data, source_alloc) ==
    LET target == ExistingAllocations(after, data.normalized_name, data.to_owner)
    IN  IF target # {}
        THEN [k \in DOMAIN after |->
                 IF k \in target
                 THEN [after[k] EXCEPT !.allocated_quantity = @ + data.quantity]
                 ELSE after[k]]
        ELSE Append(after,
                    [normalized_item_name |-> data.normalized_name,
                     owner |-> data.to_owner,
                     allocated_quantity |-> data.quantity,
                     unit_cost |-> get_unit_cost_for_item(imgs, data.normalized_name),
                     excel_item_name |-> source_alloc.excel_item_name])

\* _handle_move_allocation: the quantity of the request is not looked at before
\* it is added; a request without one raises (TypeError, or the NOT NULL column of
\* the new row), which rolls the session back
_handle_move_allocation(allocs, imgs, data) ==
    IF NoText(data, "normalized_name") \/ NoText(data, "from_owner") \/ NoText(data, "to_owner")
    THEN [status |-> 400, allocations |-> allocs, deleted |-> {}]
    ELSE LET source == ExistingAllocations(allocs, data.normalized_name, data.from_owner)
         IN  IF Cardinality(source) > 1
             THEN [status |-> 500, allocations |-> allocs, deleted |-> {}]
             ELSE IF source = {}
             THEN [status |-> 404, allocations |-> allocs, deleted |-> {}]
             ELSE IF Cardinality(ExistingAllocations(DeleteRows(allocs, source, 1),
                                                     data.normalized_name, data.to_owner)) > 1
                     \/ "quantity" \notin DOMAIN data
             THEN [status |-> 500, allocations |-> allocs, deleted |-> {}]
             ELSE [status |-> 200,
                   allocations |-> MoveTarget(DeleteRows(allocs, source, 1), imgs, data,
                                              allocs[CHOOSE k \in source : TRUE]),
                   deleted |-> source]

\* _handle_remove_allocation: the delete statement takes every row of the item
\* and owner
_handle_remove_allocation(allocs, data) ==
    IF NoText(data, "normalized_name") \/ NoText(data, "owner")
    THEN [status |-> 400, allocations |-> allocs, deleted |-> {}]
    ELSE LET existing == ExistingAllocations(allocs, data.normalized_name, data.owner)
         IN  IF existing = {}
             THEN [status |-> 404, allocations |-> allocs, deleted |-> {}]
             ELSE [status |-> 200, allocations |-> DeleteRows(allocs, existing, 1),
                   deleted |-> existing]

\* the threads of the server that the model follows
MaxThreads == 2

Threads == 1..MaxThreads

\* the most rows that the requests of the model build up
MaxAllocations == 2

\* a thread that serves no assign request
NoRequest == [pc |-> "idle"]

\* the owners and the names of the requests on allocations: the key under which
\* the assign requests record an item, and the title under which the import does
RequestOwners == {<<"C", "i", "h", "a", "n">>, <<"N", "i", "m", "a">>}

AllocatedNames == {<<"p", "i", "k", "a", "c", "h", "u", " ", "v">>, <<"P", "h", "a", "n", "t", "a", "s", "m", "a", "l", " ", "F", "l", "a", "m", "e", "s", " ", "S", "l", "e", "e", "v", "e">>}

UpdateAllocatedQuantityRequests ==
    {[normalized_name |-> n, owner |-> o, quantity |-> q] :
        n \in AllocatedNames, o \in AssignedOwners, q \in {0, 2}}
        \cup {[normalized_name |-> n, owner |-> o] : n \in AllocatedNames, o \in AssignedOwners}

MoveAllocationRequests ==
    {[normalized_name |-> n, from_owner |-> f, to_owner |-> t, quantity |-> q] :
        n \in AllocatedNames, f \in RequestOwners, t \in RequestOwners, q \in {1, 2}}
        \cup {[normalized_name |-> n, from_owner |-> f, to_owner |-> t] :
                 n \in AllocatedNames, f \in AssignedOwners, t \in AssignedOwners}
        \cup {[normalized_name |-> n, to_owner |-> t] :
                 n \in AllocatedNames, t \in AssignedOwners}

\* the assign requests of the threads: those of the first of these names
ThreadRequests == {data \in AssignRequests : data.item_name \in AllocatedNames}

RemoveAllocationRequests ==
    {[normalized_name |-> n, owner |-> o] : n \in AllocatedNames, o \in RequestOwners}
        \cup {[normalized_name |-> n] : n \in AllocatedNames}

\* the rows that a request wrote stay within the bounds of the model
WithinBounds(allocs, written) ==
    /\ Len(written) <= MaxAllocations
    /\ \A k \in DOMAIN written :
           \/ written[k].allocated_quantity <= MaxAssigned
           \/ \E j \in DOMAIN allocs : allocs[j] = written[k]

\* the sessions of the assign requests after the rows at the positions of D are
\* deleted: a session whose row is gone holds a row of no position
AfterDelete(s, D) ==
    [w \in DOMAIN s |->
        IF s[w].pc = "assign" /\ s[w].row > 0
        THEN [s[w] EXCEPT !.row = IF @ \in D THEN -1
                                  ELSE @ - Cardinality({j \in D : j < @})]
        ELSE s[w]]

\* _handle_assign up to its query: a bad request is answered at once, any other
\* holds the first row of its item and owner (row 0 when there is none) as it
\* read it
BeginAssign(w, data) ==
    /\ sess[w] = NoRequest
    /\ IF NoText(data, "item_name") \/ NoText(data, "owner") \/ NoNumber(data, "quantity")
       THEN /\ reply' = [op |-> "assign", data |-> data, status |-> 400]
            /\ UNCHANGED sess
       ELSE \E existing \in {ExistingAllocations(allocations, AssignKey[data.item_name],
                                                 data.owner)} :
                /\ sess' = [sess EXCEPT ![w] =
                               IF existing = {}
                               THEN [pc |-> "assign", data |-> data, row |-> 0, read |-> 0]
                               ELSE [pc |-> "assign", data |-> data,
                                     row |-> CHOOSE k \in existing : \A j \in existing : k <= j,
                                     read |-> allocations[CHOOSE k \in existing :
                                                 \A j \in existing : k <= j].allocated_quantity]]
                /\ UNCHANGED reply
    /\ UNCHANGED <<title, extracted, fs, db, last, nonSalesUsed, images, allocations>>

\* what the commit of an assign request writes: a new row, or the quantity it
\* read plus its own on the row it read; the update of a row that is gone raises
\* (StaleDataError)
AssignWrite(allocs, imgs, s) ==
    IF s.row = 0
    THEN [status |-> 200,
          allocations |-> Append(allocs,
                                 [normalized_item_name |-> AssignKey[s.data.item_name],
                                  owner |-> s.data.owner,
                                  allocated_quantity |-> s.data.quantity,
                                  unit_cost |-> get_unit_cost_for_item(
                                                    imgs, AssignKey[s.data.item_name]),
                                  excel_item_name |-> s.data.item_name])]
    ELSE IF s.row < 0
    THEN [status |-> 500, allocations |-> allocs]
    ELSE [status |-> 200,
          allocations |-> [allocs EXCEPT ![s.row].allocated_quantity =
                                             s.read + s.data.quantity]]

CommitAssign(w) ==
    /\ sess[w].pc = "assign"
    /\ \E out \in {AssignWrite(allocations, images, sess[w])} :
           /\ WithinBounds(allocations, out.allocations)
           /\ reply' = [op |-> "assign", data |-> sess[w].data, status |-> out.status]
           /\ allocations' = out.allocations
    /\ sess' = [sess EXCEPT ![w] = NoRequest]
    /\ UNCHANGED <<title, extracted, fs, db, last, nonSalesUsed, images>>

HandleUpdateAllocatedQuantity(data) ==
    \E out \in {_handle_update_allocated_quantity(allocations, data)} :
        /\ WithinBounds(allocations, out.allocations)
        /\ reply' = [op |-> "update-allocated-quantity", data |-> data, status |-> out.status]
        /\ allocations' = out.allocations
        /\ sess' = AfterDelete(sess, out.deleted)
        /\ UNCHANGED <<title, extracted, fs, db, last, nonSalesUsed, images>>

HandleMoveAllocation(data) ==
    \E out \in {_handle_move_allocation(allocations, images, data)} :
        /\ WithinBounds(allocations, out.allocations)
        /\ reply' = [op |-> "move-allocation", data |-> data, status |-> out.status]
        /\ allocations' = out.allocations
        /\ sess' = AfterDelete(sess, out.deleted)
        /\ UNCHANGED <<title, extracted, fs, db, last, nonSalesUsed, images>>

HandleRemoveAllocation(data) ==
    \E out \in {_handle_remove_allocation(allocations, data)} :
        /\ reply' = [op |-> "remove-allocation", data |-> data, status |-> out.status]
        /\ allocations' = out.allocations
        /\ sess' = AfterDelete(sess, out.deleted)
        /\ UNCHANGED <<title, extracted, fs, db, last, nonSalesUsed, images>>

\* the workbooks of the imports between the requests
ImportedPaths == {"real", "twice"}

\* an import writes the table anew, and with it the ids of the rows: the model
\* follows the imports that no assign request holding a row is cut by
ImportBetweenRequests(path) ==
    /\ \A w \in Threads : sess[w].pc = "assign" => sess[w].row = 0
    /\ ImportAllocations(path, FALSE)

InitRequests ==
    /\ db = SampleTransactions
    /\ images = {}
    /\ allocations = <<>>
    /\ reply = NoReply
    /\ title = [text |-> <<>>, tokens |-> 0]
    /\ extracted = NotExtracted
    /\ fs = <<>>
    /\ last = NoCall
    /\ nonSalesUsed = FALSE
    /\ sess = [w \in Threads |-> NoRequest]

NextRequests ==
    \/ \E w \in Threads, data \in ThreadRequests : BeginAssign(w, data)
    \/ \E w \in Threads : CommitAssign(w)
    \/ \E data \in UpdateAllocatedQuantityRequests : HandleUpdateAllocatedQuantity(data)
    \/ \E data \in MoveAllocationRequests : HandleMoveAllocation(data)
    \/ \E data \in RemoveAllocationRequests : HandleRemoveAllocation(data)
    \/ \E path \in ImportedPaths : ImportBetweenRequests(path)

SpecRequests == InitRequests /\ [][NextRequests]_vars

(***************************************************************************)
(* Titles for normalize_title: every concatenation of at most MaxWords     *)
(* fragments, normalized in the modes that apply the custom rules.         *)
(***************************************************************************)
MaxWords == 4

TitleWords ==
    {<<"P", "r", "i", "s", "m", "a", "t", "i", "c">>, <<" ", "U", "l", "t", "r", "a", " ", "P", "r", "e", "m", "i", "u", "m", " ", "C", "o", "l", "l", "e", "c", "t", "i", "o", "n">>, <<" ", "U", "P", "C">>, <<" ", "E", "T", "B">>,
     <<"1", "x">>, <<" ", "P", "a", "c", "k">>, <<" ", "#", "1", "1">>, <<" ", "#", "2">>}

KeyModes == {"aggressive", "custom"}

\* A title is written fragment by fragment.
AppendWord(word) ==
    /\ ~extracted.done
    /\ \E n \in 0..(MaxWords - 1) : title.tokens = n
    /\ title' = [text |-> title.text \o word, tokens |-> title.tokens + 1]
    /\ UNCHANGED <<extracted, fs, db, last, nonSalesUsed, sess, images, allocations, reply>>

\* key = normalize_title(title, mode)
NormalizeTitle(mode) ==
    /\ ~extracted.done
    /\ extracted' = [done |-> TRUE, mode |-> mode, value |-> normalize_title(title.text, mode)]
    /\ UNCHANGED <<title, fs, db, last, nonSalesUsed, sess, images, allocations, reply>>

InitNormalize == InitMultiplier

NextNormalize ==
    \/ \E word \in TitleWords : AppendWord(word)
    \/ \E mode \in KeyModes : NormalizeTitle(mode)

SpecNormalize == InitNormalize /\ [][NextNormalize]_vars

(***************************************************************************)
(* Quantity edits of the dashboard and the reports it then shows           *)
(* (app/ui.py: /api/update-quantity and _handle_api_items).                *)
(***************************************************************************)
\* the stores of the edits: the giveaway that is no sale, the gift pack that is
\* one (both of the key 'random asian pack'), two numbered packs and a card
EditedRows == {1, 3, 4, 7, 8}

EditedStores == {Pick(SoldRows, picked, 1) : picked \in SUBSET EditedRows}

\* the keys of the edits: of records that are sales and not, of sales, of none
EditedNames == {<<"r", "a", "n", "d", "o", "m", " ", "a", "s", "i", "a", "n", " ", "p", "a", "c", "k">>, <<"p", "i", "k", "a", "c", "h", "u", " ", "v">>, <<"c", "r", "o", "w", "n", " ", "z", "e", "n", "i", "t", "h", " ", "p", "a", "c", "k">>}

EditRequests ==
    {[item_name |-> n, quantity |-> q] : n \in EditedNames, q \in {0, 7}}
        \cup {[item_name |-> n] : n \in EditedNames}

\* the items of the dashboard: get_item_counts by title, with or without the
\* giveaways
ApiItems(include_non_sales, title_match) ==
    /\ reply' = [op |-> "get_item_counts",
                 group_by_buyer |-> FALSE,
                 include_non_sales |-> include_non_sales,
                 title_match |-> title_match,
                 results |-> get_item_counts(db, images, FALSE, include_non_sales,
                                             title_match, CHOOSE rank \in BuyerRanks : TRUE)]
    /\ UNCHANGED <<title, extracted, fs, db, last, nonSalesUsed, sess, images, allocations>>

InitEdits ==
    /\ db \in EditedStores
    /\ images = {}
    /\ allocations = <<>>
    /\ reply = NoReply
    /\ title = [text |-> <<>>, tokens |-> 0]
    /\ extracted = NotExtracted
    /\ fs = <<>>
    /\ last = NoCall
    /\ nonSalesUsed = FALSE
    /\ sess = <<>>

NextEdits ==
    \/ \E data \in EditRequests : HandleUpdateQuantity(data)
    \/ \E include_non_sales \in BOOLEAN, title_match \in KeyModes :
           ApiItems(include_non_sales, title_match)

SpecEdits == InitEdits /\ [][NextEdits]_vars

(***************************************************************************)
(* Properties of the ingestion pipeline                                    *)
(***************************************************************************)
\* the line of the catalogue a stored record was read from
RowOf(r) == fs[r.source_file][r.row_no]

\* the data rows of the files at csv_paths
RECURSIVE TotalRows(_, _)
TotalRows(csv_paths, k) ==
    IF k > Len(csv_paths) THEN 0 ELSE Len(fs[csv_paths[k]]) + TotalRows(csv_paths, k + 1)

AllExist(csv_paths) == \A k \in DOMAIN csv_paths : csv_paths[k] \in DOMAIN fs

\* row k of the catalogue passes validation, has an order id and a title, and is
\* no genuine sale
NonGenuine(k) ==
    LET v == Validated[k]
    IN  /\ v.raises = "none"
        /\ v.row.order_id # ""
        /\ ~(/\ v.row.transaction_type = "ORDER_EARNINGS"
             /\ \/ v.row.transaction_amount.coef > 0
                \/ v.row.buyer_paid.coef > 0
                \/ v.row.original_item_price.coef > 0)

\* the non-sale rows of the files at csv_paths
RECURSIVE NonGenuineRows(_, _)
NonGenuineRows(csv_paths, k) ==
    IF k > Len(csv_paths) THEN 0
    ELSE Cardinality({n \in DOMAIN fs[csv_paths[k]] : NonGenuine(fs[csv_paths[k]][n])})
             + NonGenuineRows(csv_paths, k + 1)

\* C1: a call with the paths and the flag of the call before it, which returned,
\* returns rows_loaded = 0 and rows_skipped = the number of data rows of its files,
\* and leaves the table as it found it.
C1_IdempotentReingestion ==
    last.again =>
        /\ last.raised = "none"
        /\ last.rows_loaded = 0
        /\ last.rows_skipped = TotalRows(last.csv_paths, 1)
        /\ db = last.before

\* C1's case: a second pass over files of which the first pass stored a row
C1_Witness ==
    /\ last.again
    /\ last.rows_skipped > 0
    /\ \E i \in DOMAIN db : \E k \in DOMAIN last.csv_paths :
           db[i].source_file = last.csv_paths[k]

\* C2: no two committed rows of the transactions table have the same order_id,
\* whatever the interleaving of the callers.
C2_OrderIdUnique ==
    \A i, j \in DOMAIN db : db[i].order_id = db[j].order_id => i = j

\* C2's case: both callers read the order of row 1 while neither had committed it,
\* one committed it and the other was refused
C2_Witness ==
    /\ \E i \in DOMAIN db : db[i].order_id = "1"
    /\ \E w \in Workers : sess[w].pc = "idle" /\ sess[w].st.raised = "IntegrityError"

\* C3: every stored record has quantity_sold = the QUANTITY_SOLD of its row (1 when
\* blank or absent) times the multiplier of the row's title; QUANTITY_SOLD = 2 of
\* '1x Pack - Item #11' is stored as 2 and QUANTITY_SOLD = 1 of '2x Pack - Item' as 2.
C3_ResolvedQuantity ==
    \A i \in DOMAIN db :
        LET raw == CsvRows[RowOf(db[i])]
            text == Strip(raw.QUANTITY_SOLD)
            quantity == IF "QUANTITY_SOLD" \in raw.absent \/ text = <<>>
                        THEN 1
                        ELSE DigitsToInt(text, 1, Len(text))
        IN  /\ db[i].quantity_sold = quantity * _extract_quantity_multiplier(raw.LISTING_TITLE)
            /\ RowOf(db[i]) = 5 => db[i].quantity_sold = 2
            /\ RowOf(db[i]) = 6 => db[i].quantity_sold = 2

\* C3's case: a row with a 2x title and a row without a quantity are stored
C3_Witness ==
    /\ \E i \in DOMAIN db : RowOf(db[i]) = 6 /\ db[i].quantity_sold = 2
    /\ \E i \in DOMAIN db : RowOf(db[i]) \in {3, 16} /\ db[i].quantity_sold = 1

\* C4: as long as every call had include_non_sales = False, every stored record has
\* is_sale = True and comes from no non-sale row; the non-sale rows of the files of
\* a call are among the rows it counts as skipped.
C4_NonSalesExcluded ==
    ~nonSalesUsed =>
        /\ \A i \in DOMAIN db : db[i].is_sale /\ ~NonGenuine(RowOf(db[i]))
        /\ (last.called /\ last.raised = "none") =>
               last.rows_skipped >= NonGenuineRows(last.csv_paths, 1)

\* C4's case: a call without non-sales that read a giveaway and a sale
C4_Witness ==
    /\ ~nonSalesUsed
    /\ last.called /\ last.raised = "none"
    /\ last.rows_loaded > 0
    /\ \E k \in DOMAIN last.csv_paths : \E n \in DOMAIN fs[last.csv_paths[k]] :
           NonGenuine(fs[last.csv_paths[k]][n])

\* C5: the is_sale of a stored record is true exactly when its transaction type is
\* ORDER_EARNINGS and one of its three amounts is greater than 0.
C5_IsSaleFlag ==
    \A i \in DOMAIN db :
        db[i].is_sale <=>
            /\ db[i].transaction_type = "ORDER_EARNINGS"
            /\ \/ db[i].transaction_amount.coef > 0
               \/ db[i].buyer_paid.coef > 0
               \/ db[i].original_item_price.coef > 0

\* C5's case: stored are a sale by its original price alone, and a row of another
\* transaction type with money paid
C5_Witness ==
    /\ \E i \in DOMAIN db : RowOf(db[i]) = 14 /\ db[i].is_sale
    /\ \E i \in DOMAIN db : RowOf(db[i]) = 13 /\ ~db[i].is_sale

\* C6: _extract_quantity_multiplier returns an integer >= 1 for every title.
C6_MultiplierAtLeastOne == extracted.done => extracted.value >= 1

\* C7: the digits _extract_quantity_multiplier returns are never the digits that
\* directly follow a '#'.
C7_LotNumberNeverMultiplier ==
    (extracted.done /\ extracted.at > 1) => title.text[extracted.at - 1] # "#"

\* C8: a call with a path that does not exist fails with FileNotFoundError and
\* leaves the table as it found it.
C8_MissingFileAborts ==
    (last.called /\ ~AllExist(last.csv_paths)) =>
        /\ last.raised = "FileNotFoundError"
        /\ db = last.before

\* C9: a call whose files all exist returns, whatever their rows hold, and every
\* row is counted as loaded or as skipped.
C9_MalformedRowNeverFatal ==
    (last.called /\ AllExist(last.csv_paths)) =>
        /\ last.raised = "none"
        /\ last.rows_loaded + last.rows_skipped = TotalRows(last.csv_paths, 1)

\* C10: every stored record has a non-empty order id, a non-empty title and a
\* non-empty transaction type.
C10_RequiredFields ==
    \A i \in DOMAIN db :
        /\ db[i].order_id # ""
        /\ Len(db[i].listing_title) > 0
        /\ db[i].transaction_type # ""

(***************************************************************************)
(* Properties of the reports                                               *)
(***************************************************************************)
Reported == reply.op = "get_item_counts"

\* the records the report was taken of
Counted == Qualifying(db, reply.include_non_sales)

\* the summed quantity_sold of records or of report rows
RECURSIVE TotalQuantity(_, _)
TotalQuantity(rows, k) ==
    IF k > Len(rows) THEN 0 ELSE rows[k].quantity_sold + TotalQuantity(rows, k + 1)

\* the rows of the report under one normalized key
RowsOfKey(key) == SelectSeq(reply.results, LAMBDA item : item.normalized_name = key)

\* the markers of a giveaway title
Markers ==
    {<<"g", "i", "v">>, <<"g", "i", "v", "e", "a", "w", "a", "y">>, <<"r", "a", "n", "d", "o", "m", " ", "a", "s", "i", "a", "n", " ", "p", "a", "c", "k">>, <<"r", "a", "n", "d", "o", "m", " ", "p", "o", "k", "e", "m", "o", "n", " ", "p", "a", "c", "k">>,
     <<"a", "s", "i", "a", "n", " ", "p", "o", "k", "e", "m", "o", "n", " ", "p", "a", "c", "k">>, <<"f", "r", "e", "e">>}

\* a raw title contains one of them
HasMarker(t) == \E m \in Markers : Contains(Lower(t), m)

MarkerTable == [t \in ListingTitles |-> HasMarker(t)]

\* each marker in upper and lower case, bare, behind an event prefix, before a lot
\* number, and between both
DecoratedMarkers ==
    UNION {{m, <<"F", "r", "i", "d", "a", "y", " ", "F", "i", "e", "s", "t", "a", " ", "-", " ">> \o m, m \o <<" ", "#", "1", "2">>,
            <<"K", "a", "n", "t", "o", " ", "C", "h", "r", "i", "s", "t", "m", "a", "s", " ", "G", "i", "f", "t", "s", " ", "-", " ">> \o m \o <<" ", "#", "3">>} :
              m \in Markers \cup {[i \in DOMAIN m |-> UpperChar(m[i])] : m \in Markers}}

DecoratedMarkerKeys ==
    {normalize_title(t, mode) : t \in DecoratedMarkers, mode \in {"aggressive", "custom"}}

\* C11: under the aggressive rules every title with a giveaway marker, decorated or
\* not, normalises to "random asian pack", and a report by title has exactly one
\* row of that key, whose quantity is the sum of the quantities of the records with
\* a marker (by buyer, the rows of the key add up to it)
C11_GiveawayFolding ==
    /\ DecoratedMarkerKeys = {GiveawayKey}
    /\ \A t \in ListingTitles :
           MarkerTable[t] => /\ NormalizedTitle["aggressive"][t] = GiveawayKey
                             /\ NormalizedTitle["custom"][t] = GiveawayKey
    /\ (Reported /\ reply.title_match \in {"aggressive", "custom"}) =>
           LET marked == SelectSeq(Counted, LAMBDA tx : MarkerTable[tx.listing_title])
               rows == RowsOfKey(GiveawayKey)
           IN  Len(marked) > 0 =>
                   /\ ~reply.group_by_buyer => Len(rows) = 1
                   /\ TotalQuantity(rows, 1) = TotalQuantity(marked, 1)

\* four giveaways of quantity 1, one behind an event prefix and one with a lot number,
\* are reported as one row of quantity 4
C11_Witness ==
    /\ Reported
    /\ reply.title_match = "aggressive"
    /\ ~reply.group_by_buyer
    /\ Len(Counted) = 4
    /\ \A k \in DOMAIN Counted :
           MarkerTable[Counted[k].listing_title] /\ Counted[k].quantity_sold = 1
    /\ Len(reply.results) = 1
    /\ reply.results[1].normalized_name = GiveawayKey
    /\ reply.results[1].quantity_sold = 4

\* two titles made of the same words, whatever the letter case and the whitespace
SameWords(s, t) == Lower(JoinWords(Strip(s), 1)) = Lower(JoinWords(Strip(t), 1))

SameWordsTable == [s \in ListingTitles |-> {t \in ListingTitles : SameWords(s, t)}]

\* C12: in case_insensitive mode the records whose titles differ only in letter case
\* and in leading, trailing or repeated whitespace are one row of the report by
\* title, whose quantity is the sum of their quantities (by buyer, the rows add up)
C12_FoldedTitlesMerge ==
    (Reported /\ reply.title_match = "case_insensitive") =>
        \A k \in DOMAIN Counted :
            LET same == SelectSeq(Counted,
                            LAMBDA tx : tx.listing_title \in SameWordsTable[Counted[k].listing_title])
                rows == SelectSeq(reply.results,
                            LAMBDA item : item.normalized_name
                                              = Lower(JoinWords(Strip(Counted[k].listing_title), 1)))
            IN  /\ ~reply.group_by_buyer => Len(rows) = 1
                /\ TotalQuantity(rows, 1) = TotalQuantity(same, 1)

\* two records whose titles differ in case and whitespace are one row of quantity 3
C12_Witness ==
    /\ Reported
    /\ reply.title_match = "case_insensitive"
    /\ ~reply.group_by_buyer
    /\ \E i, j \in DOMAIN Counted :
           /\ Counted[i].listing_title # Counted[j].listing_title
           /\ Counted[j].listing_title \in SameWordsTable[Counted[i].listing_title]
    /\ Len(reply.results) = 1
    /\ reply.results[1].quantity_sold = 3

\* the curated name of a key, if there is one that is not empty
Overrides(key) ==
    {im.description : im \in {im \in images : /\ im.normalized_item_name = key
                                               /\ im.description # None
                                               /\ im.description # <<>>}}

\* C13: in the folding modes a row is titled with the curated name of its key when
\* there is one, with no multiplier suffix; else with the formatted key followed by
\* the multiplier suffix of a raw title of its group
C13_DisplayNamePrecedence ==
    (Reported /\ reply.title_match \in {"case_insensitive", "aggressive", "custom"}) =>
        \A n \in DOMAIN reply.results :
            LET item == reply.results[n]
                key == item.normalized_name
            IN  IF Overrides(key) # {}
                THEN item.listing_title \in Overrides(key)
                ELSE \E k \in DOMAIN Counted :
                         /\ NormalizedTitle[reply.title_match][Counted[k].listing_title] = key
                         /\ item.listing_title
                                = FormattedTitle[reply.title_match][key]
                                      \o PackSuffix[Counted[k].listing_title]

\* a key with a curated name whose raw title carries a multiplier is shown under the
\* curated name alone
C13_Witness ==
    /\ Reported
    /\ reply.title_match = "custom"
    /\ \E n \in DOMAIN reply.results :
           /\ Overrides(reply.results[n].normalized_name) # {}
           /\ reply.results[n].listing_title \in Overrides(reply.results[n].normalized_name)
           /\ \A k \in DOMAIN Counted :
                  NormalizedTitle["custom"][Counted[k].listing_title]
                          = reply.results[n].normalized_name
                      => PackSuffix[Counted[k].listing_title] # <<>>

\* the set_name of a report row, None when the row has no such field
SetNameOf(item) == IF "set_name" \in DOMAIN item THEN item.set_name ELSE None

\* C14: every row of a report with title_match = "aggressive" carries the set name
\* of the classifier, and every row of an exact or case_insensitive report carries
\* none
C14_SetNameInAggressiveOnly ==
    Reported =>
        \A n \in DOMAIN reply.results :
            LET item == reply.results[n]
            IN  /\ reply.title_match = "aggressive" =>
                       SetNameOf(item) = SetName[item.normalized_name]
                /\ reply.title_match \in {"exact", "case_insensitive"} =>
                       SetNameOf(item) = None

\* a row is unclassified: its set name is "Other" or null
Unclassified(item) == SetNameOf(item) \in {None, <<"O", "t", "h", "e", "r">>}

\* C15: the rows of a report ascend in (set_name or "ZZZ", display title), and no
\* unclassified row precedes a row with a classified set name
C15_ReportOrdering ==
    Reported =>
        \A m, n \in DOMAIN reply.results :
            m < n =>
                LET a == reply.results[m]
                    b == reply.results[n]
                    keyOf(item) == <<IF SetNameOf(item) \in {None, <<>>} THEN <<"Z", "Z", "Z">>
                                     ELSE SetNameOf(item),
                                    item.listing_title>>
                IN  /\ ~KeyLess(keyOf(b), keyOf(a))
                    /\ ~(Unclassified(a) /\ ~Unclassified(b))

PayloadFields ==
    {"listing_title", "quantity_sold", "buyer_name", "set_name", "image_url", "unit_cost",
     "normalized_name"}

\* C16: every row of every report carries all the payload fields, and a row whose
\* key has no curated metadata has unit_cost 0.00 and image_url null
C16_RowPayload ==
    Reported =>
        \A n \in DOMAIN reply.results :
            LET item == reply.results[n]
            IN  /\ PayloadFields \subseteq DOMAIN item
                /\ ImageData(images, item.normalized_name) = {} =>
                       item.unit_cost = 0 /\ item.image_url = None

(***************************************************************************)
(* Properties of the admin requests and of the allocations                 *)
(***************************************************************************)
\* the request carries every key that its handler requires
Complete(op, data) ==
    /\ ~NoText(data, "item_name")
    /\ op = "update-quantity" => "quantity" \in DOMAIN data
    /\ op = "assign" => ~NoText(data, "owner") /\ ~NoNumber(data, "quantity")

\* the normalized key that a request names
RequestKey(op, data) ==
    IF op = "assign" THEN AssignKey[data.item_name] ELSE Lower(data.item_name)

\* no persisted record normalises to the key
NoRecordOf(table, key) ==
    \A k \in DOMAIN table : NormalizedTitle["custom"][table[k].listing_title] # key

\* C17: an update-quantity, delete-item or assign request that names a normalized
\* key to which no persisted record normalises is answered "not found" (404), and
\* the records, the allocations and the curated metadata stay exactly as they were.
C17_AdminMutationMiss ==
    [][(/\ reply'.op \in {"update-quantity", "delete-item", "assign"}
        /\ Complete(reply'.op, reply'.data)
        /\ NoRecordOf(db, RequestKey(reply'.op, reply'.data)))
           => (/\ reply'.status = 404
               /\ db' = db
               /\ allocations' = allocations
               /\ images' = images)]_vars

\* the last call was an import that returned, of a dry run or not
Imported(dry_run) ==
    /\ reply.op = "import_allocations_from_excel"
    /\ reply.raised = "none"
    /\ reply.dry_run = dry_run

\* the inventories of the stores of the allocations, evaluated once
InventoryOf ==
    [table \in SampleStores |-> [imgs \in SampleImages |-> Inventory(table, imgs)]]

InventoryNamesOf ==
    [table \in SampleStores |->
        [imgs \in SampleImages |-> DictKeys(InventoryOf[table][imgs], 1)]]

\* the inventory item that row n of the workbook names, None when it names none
NamedItem(rows, n) ==
    IF Usable(rows[n].row)
    THEN MatchedName[InventoryNamesOf[db][images]][Strip(rows[n].row.item_name)]
    ELSE None

\* the quantity that the rows 1..n of the workbook allocate of an item
RECURSIVE Cumulative(_, _, _)
Cumulative(rows, name, n) ==
    IF n = 0 THEN 0
    ELSE (IF NamedItem(rows, n) = name THEN rows[n].row.count ELSE 0)
             + Cumulative(rows, name, n - 1)

\* row n makes the cumulative quantity of its item exceed the available quantity
Exceeds(rows, n) ==
    Cumulative(rows, NamedItem(rows, n), n)
        > DictItem(InventoryOf[db][images], NamedItem(rows, n)).quantity_sold

\* the rows of the workbook that name an item and exceed it (or do not), in order
RECURSIVE RowsThat(_, _, _)
RowsThat(rows, exceed, n) ==
    IF n > Len(rows) THEN <<>>
    ELSE (IF NamedItem(rows, n) # None /\ Exceeds(rows, n) = exceed
          THEN <<[excel_name |-> Strip(rows[n].row.item_name), owner |-> rows[n].owner,
                  allocated_quantity |-> rows[n].row.count]>>
          ELSE <<>>) \o RowsThat(rows, exceed, n + 1)

\* the workbook row that an entry of the result or an Allocation row is of
EntryRow(entry) ==
    [excel_name |-> IF "excel_name" \in DOMAIN entry THEN entry.excel_name
                    ELSE entry.excel_item_name,
     owner |-> entry.owner,
     allocated_quantity |-> entry.allocated_quantity]

EntryRows(entries) == [k \in DOMAIN entries |-> EntryRow(entries[k])]

\* C18 as stated: a row that makes the cumulative allocated quantity of its item
\* exceed the available quantity is reported in over_allocated, and its allocation
\* is still persisted by a non-dry-run import.
C18_OverAllocatedPersisted ==
    Imported(FALSE) =>
        \A row \in Range(RowsThat(SheetRows(ExcelFiles[reply.path], 1), TRUE, 1)) :
            /\ row \in Range(EntryRows(reply.result.over_allocated))
            /\ row \in Range(EntryRows(allocations))

\* C18, amended: the rows that make the cumulative allocated quantity of their item
\* exceed the available quantity are the entries of over_allocated, the import
\* returns all the same, and a non-dry-run import persists the other rows that
\* name an item and none of the exceeding ones.
C18_OverAllocatedReported ==
    Imported(FALSE) =>
        /\ EntryRows(reply.result.over_allocated)
               = RowsThat(SheetRows(ExcelFiles[reply.path], 1), TRUE, 1)
        /\ EntryRows(allocations)
               = RowsThat(SheetRows(ExcelFiles[reply.path], 1), FALSE, 1)
        /\ EntryRows(reply.result.matched) = EntryRows(allocations)

C18_Witness ==
    /\ Imported(FALSE)
    /\ Len(reply.result.over_allocated) >= 2
    /\ Len(allocations) >= 2
    /\ \E k \in DOMAIN reply.result.over_allocated :
           reply.result.over_allocated[k].allocated_quantity
               <= reply.result.over_allocated[k].available_quantity

\* the allocation rows recorded under the name of an inventory item, its display
\* title or its normalized name
AllocationsOf(item) ==
    {k \in DOMAIN allocations :
        allocations[k].normalized_item_name \in {item.listing_title, item.normalized_name}}

RECURSIVE QuantityOf(_)
QuantityOf(rows) ==
    IF rows = {} THEN 0
    ELSE LET k == CHOOSE k \in rows : TRUE
         IN  allocations[k].allocated_quantity + QuantityOf(rows \ {k})

\* every allocation row is recorded under the name of an inventory item, and no
\* item is over-allocated
WellAllocated ==
    /\ \A k \in DOMAIN allocations :
           \E item \in Range(InventoryOf[db][images]) : k \in AllocationsOf(item)
    /\ \A item \in Range(InventoryOf[db][images]) :
           QuantityOf(AllocationsOf(item)) <= item.quantity_sold

\* C19: in a store where every allocation row is recorded under the name of an
\* inventory item and no item is over-allocated, the summary gives total_inventory
\* as the sum of the quantities of the records, total_allocated as the sum of the
\* allocation quantities, total_unallocated as their difference, and allocated_items
\* as exactly the items with at least one allocation row.
C19_SummaryAccounts ==
    (reply.op = "get_allocation_summary" /\ WellAllocated) =>
        /\ reply.summary.total_inventory = SumField(db, "quantity_sold", 1)
        /\ reply.summary.total_allocated = QuantityOf(DOMAIN allocations)
        /\ reply.summary.total_unallocated
               = reply.summary.total_inventory - reply.summary.total_allocated
        /\ {entry.item_name : entry \in Range(reply.summary.allocated_items)}
               = {item.listing_title : item \in {item \in Range(InventoryOf[db][images]) :
                                                    AllocationsOf(item) # {}}}

\* the usable rows of the workbook that name no inventory item
RECURSIVE RowsOfNone(_, _)
RowsOfNone(rows, n) ==
    IF n > Len(rows) THEN <<>>
    ELSE (IF Usable(rows[n].row) /\ NamedItem(rows, n) = None
          THEN <<[excel_name |-> Strip(rows[n].row.item_name), owner |-> rows[n].owner,
                  allocated_quantity |-> rows[n].row.count]>>
          ELSE <<>>) \o RowsOfNone(rows, n + 1)

\* C20: a dry-run import changes nothing in the store: the Allocation rows after
\* the call are the rows before it (and so are the records and the curated
\* metadata), for any workbook and any prior allocations, while the returned
\* preview still lists every usable row of the workbook under matched, unmatched
\* or over_allocated.
C20_DryRunChangesNothing ==
    [][(/\ reply'.op = "import_allocations_from_excel"
        /\ reply'.raised = "none"
        /\ reply'.dry_run)
           => (/\ allocations' = allocations
               /\ db' = db
               /\ images' = images
               /\ EntryRows(reply'.result.matched)
                      = RowsThat(SheetRows(ExcelFiles[reply'.path], 1), FALSE, 1)
               /\ EntryRows(reply'.result.over_allocated)
                      = RowsThat(SheetRows(ExcelFiles[reply'.path], 1), TRUE, 1)
               /\ EntryRows(reply'.result.unmatched)
                      = RowsOfNone(SheetRows(ExcelFiles[reply'.path], 1), 1))]_vars

C20_Witness ==
    /\ Imported(TRUE)
    /\ allocations # <<>>
    /\ reply.result.matched # <<>>
    /\ reply.result.unmatched # <<>>
    /\ reply.result.over_allocated # <<>>
    /\ EntryRows(allocations) # EntryRows(reply.result.matched)

(***************************************************************************)
(* Properties of the allocation requests                                   *)
(***************************************************************************)
\* C21: whatever requests and imports ran, and however the assign requests of
\* two threads interleaved, no two rows of the allocations are of the same
\* normalized item name and owner
C21_OneAllocationPerOwner ==
    \A i, j \in DOMAIN allocations :
        (/\ allocations[i].normalized_item_name = allocations[j].normalized_item_name
         /\ allocations[i].owner = allocations[j].owner) => i = j

\* the rule of the extractor that a lowered title falls under, by the patterns it
\* contains
MultiplierRule(lowered) ==
    IF BlisterPackSearch(lowered) THEN 1
    ELSE IF XPackSearch(lowered).found THEN 2
    ELSE IF XSearch(lowered).found /\ ~Contains(lowered, W_blister) THEN 3
    ELSE IF PacksXSearch(lowered).found THEN 4
    ELSE 5

EndsWith(s, w) == Len(s) >= Len(w) /\ HasAt(s, Len(s) - Len(w) + 1, w)

\* C23: in aggressive mode a title that contains 'ultra premium collection', and
\* none of 'elite trainer box', 'etb' and 'booster bundle', gets the product type
\* 'upc': its key ends in 'upc' and is the key of the title written with 'UPC'
C23_UltraPremiumIsUpc ==
    (/\ extracted.done
     /\ extracted.mode = "aggressive"
     /\ Contains(Lower(title.text), <<"u", "l", "t", "r", "a", " ", "p", "r", "e", "m", "i", "u", "m", " ", "c", "o", "l", "l", "e", "c", "t", "i", "o", "n">>)
     /\ ~Contains(Lower(title.text), <<"e", "l", "i", "t", "e", " ", "t", "r", "a", "i", "n", "e", "r", " ", "b", "o", "x">>)
     /\ ~Contains(Lower(title.text), <<"e", "t", "b">>)
     /\ ~Contains(Lower(title.text), <<"b", "o", "o", "s", "t", "e", "r", " ", "b", "u", "n", "d", "l", "e">>))
        => /\ EndsWith(extracted.value, <<"u", "p", "c">>)
           /\ extracted.value =
                  normalize_title(Replace(Lower(title.text), 1, <<"u", "l", "t", "r", "a", " ", "p", "r", "e", "m", "i", "u", "m", " ", "c", "o", "l", "l", "e", "c", "t", "i", "o", "n">>,
                                          <<"u", "p", "c">>), "aggressive")

\* a title '1x Pack - <Set> #<n>', in any letter case of '1x', or
\* '<Set> Sleeved Booster Pack', of the set Phantasmal Flames
SleevePackTitle(t) ==
    \/ /\ HasAt(Lower(SubSeq(t, 1, 2)), 1, <<"1", "x">>)
       /\ HasAt(t, 3, <<" ", "P", "a", "c", "k", " ", "-", " ", "P", "h", "a", "n", "t", "a", "s", "m", "a", "l", " ", "F", "l", "a", "m", "e", "s", " ", "#">>)
       /\ SkipDigits(t, 30) = Len(t) + 1
       /\ Len(t) >= 30
    \/ t = <<"P", "h", "a", "n", "t", "a", "s", "m", "a", "l", " ", "F", "l", "a", "m", "e", "s", " ", "S", "l", "e", "e", "v", "e", "d", " ", "B", "o", "o", "s", "t", "e", "r", " ", "P", "a", "c", "k">>

SleevePackTable == [t \in ListingTitles |-> SleevePackTitle(t)]

\* C24: in custom mode the records titled '1x Pack - <Set> #<n>' and those titled
\* '<Set> Sleeved Booster Pack' are one group, displayed as '<Set> Sleeve', whose
\* quantity is the sum of their quantities
C24_NumberedPacksAreSleeves ==
    (Reported /\ reply.title_match = "custom" /\ ~reply.group_by_buyer) =>
        LET packs == SelectSeq(Counted, LAMBDA tx : SleevePackTable[tx.listing_title])
            rows == SelectSeq(reply.results,
                              LAMBDA item : item.listing_title = <<"P", "h", "a", "n", "t", "a", "s", "m", "a", "l", " ", "F", "l", "a", "m", "e", "s", " ", "S", "l", "e", "e", "v", "e">>)
        IN  Len(packs) > 0 =>
                /\ Len(rows) = 1
                /\ rows[1].quantity_sold = TotalQuantity(packs, 1)

\* the key ends with a token '#<digits>' that whitespace sets off
EndsWithLotToken(key) ==
    \E i \in 2..(Len(key) - 1) :
        /\ IsSpace(key[i - 1])
        /\ key[i] = "#"
        /\ \A k \in (i + 1)..Len(key) : IsDigit(key[k])

\* C25: the key of a title in aggressive mode never ends with a token
\* '#<digits>': the lot suffix is stripped from the final result, also for the
\* titles of lot numbers and stop-words only
C25_NoLotSuffix ==
    (extracted.done /\ extracted.mode = "aggressive") => ~EndsWithLotToken(extracted.value)

\* the key of a title in the mode of the report (an unknown mode is "exact")
ModeKey(t) ==
    IF reply.title_match \in {"case_insensitive", "aggressive", "custom"}
    THEN NormalizedTitle[reply.title_match][t]
    ELSE t

\* the key of a row of the report: the title itself in exact mode
RowKey(item) ==
    IF "normalized_name" \in DOMAIN item THEN item.normalized_name ELSE item.listing_title

\* C26: in every mode, by buyer or not, the quantities of the rows of a report add
\* up to the stored quantities of the qualifying records (the sales, or all records
\* with include_non_sales); by buyer there is exactly one row for each pair of a
\* key and a buyer that the qualifying records have
C26_QuantityConservation ==
    Reported =>
        LET qualifying == SelectSeq(db, LAMBDA tx : reply.include_non_sales \/ tx.is_sale)
        IN  /\ TotalQuantity(reply.results, 1) = TotalQuantity(qualifying, 1)
            /\ reply.group_by_buyer =>
                   /\ \A k \in DOMAIN qualifying :
                          Cardinality({n \in DOMAIN reply.results :
                              /\ RowKey(reply.results[n]) = ModeKey(qualifying[k].listing_title)
                              /\ reply.results[n].buyer_name = qualifying[k].buyer_name}) = 1
                   /\ \A n \in DOMAIN reply.results :
                          \E k \in DOMAIN qualifying :
                              /\ RowKey(reply.results[n]) = ModeKey(qualifying[k].listing_title)
                              /\ reply.results[n].buyer_name = qualifying[k].buyer_name

\* a report by buyer without the non-sales, of a store that has some, in which two
\* records of one key and buyer are one row
C26_Witness ==
    /\ Reported
    /\ reply.group_by_buyer
    /\ ~reply.include_non_sales
    /\ reply.title_match = "aggressive"
    /\ \E k \in DOMAIN db : ~db[k].is_sale
    /\ Len(reply.results) >= 2
    /\ \E i, j \in DOMAIN db :
           /\ i < j
           /\ db[i].is_sale /\ db[j].is_sale
           /\ db[i].buyer_name = db[j].buyer_name
           /\ ModeKey(db[i].listing_title) = ModeKey(db[j].listing_title)

\* C27: when a call returns, rows_loaded + rows_skipped is the number of data rows
\* of its files, rows_loaded is the number of records that the call added to the
\* table, and files_processed is the number of its paths
C27_CountersAccount ==
    (last.called /\ last.raised = "none") =>
        /\ last.rows_loaded + last.rows_skipped = TotalRows(last.csv_paths, 1)
        /\ Len(db) = Len(last.before) + last.rows_loaded
        /\ SubSeq(db, 1, Len(last.before)) = last.before
        /\ last.files_processed = Len(last.csv_paths)

\* a call on two files that loaded a row and skipped another
C27_Witness ==
    /\ last.called
    /\ last.raised = "none"
    /\ Len(last.csv_paths) = 2
    /\ last.rows_loaded > 0
    /\ last.rows_skipped > 0
    /\ Len(last.before) > 0

\* the allocated total of an item over all owners
RECURSIVE AllocatedTotal(_, _, _)
AllocatedTotal(allocs, normalized_name, k) ==
    IF k > Len(allocs) THEN 0
    ELSE (IF allocs[k].normalized_item_name = normalized_name
          THEN allocs[k].allocated_quantity ELSE 0)
             + AllocatedTotal(allocs, normalized_name, k + 1)

\* C28: a successful move-allocation leaves the allocated total of its item as it
\* was, whatever the quantity of the request and whether the target owner held an
\* allocation or not; a move whose source allocation does not exist changes nothing
C28_MoveConservesTotal ==
    [][reply'.op = "move-allocation" =>
           /\ reply'.status = 200 =>
                  AllocatedTotal(allocations', reply'.data.normalized_name, 1)
                      = AllocatedTotal(allocations, reply'.data.normalized_name, 1)
           /\ reply'.status = 404 => allocations' = allocations]_vars

\* the rows of a report that are of the key, and those that are not
KeyRows(results, key) == SelectSeq(results, LAMBDA item : item.normalized_name = key)

OtherRows(results, key) == SelectSeq(results, LAMBDA item : item.normalized_name # key)

\* C29: the report by title in aggressive or custom mode that follows a successful
\* update-quantity(key, q) has one row of the key, of quantity q, with the
\* non-sales and without them, whatever records of the key are sales; and the
\* update leaves the rows of all other keys as they were
C29_UpdatedQuantityReported ==
    [][/\ (/\ reply.op = "update-quantity"
           /\ reply.status = 200
           /\ reply'.op = "get_item_counts") =>
              LET rows == KeyRows(reply'.results, Lower(reply.data.item_name))
              IN  /\ Len(rows) = 1
                  /\ rows[1].quantity_sold = reply.data.quantity
       /\ (reply'.op = "update-quantity" /\ reply'.status = 200) =>
              \A include_non_sales \in BOOLEAN, title_match \in KeyModes :
                  OtherRows(get_item_counts(db', images, FALSE, include_non_sales, title_match,
                                            CHOOSE rank \in BuyerRanks : TRUE),
                            Lower(reply'.data.item_name))
                      = OtherRows(get_item_counts(db, images, FALSE, include_non_sales,
                                                  title_match, CHOOSE rank \in BuyerRanks : TRUE),
                                  Lower(reply'.data.item_name))]_vars

\* C30: the summary that follows an import that was no dry run finds every row
\* that the import stored for an inventory item under that item: the item is among
\* the allocated items with the rows, its total_allocated is the sum of their
\* quantities and its remaining is its total quantity less that sum
C30_ImportedRowsSummarized ==
    [][(/\ reply.op = "import_allocations_from_excel"
        /\ reply.raised = "none"
        /\ ~reply.dry_run
        /\ reply'.op = "get_allocation_summary") =>
           \A item \in Range(InventoryOf[db][images]) :
               LET rows == {k \in DOMAIN allocations :
                               allocations[k].normalized_item_name = item.listing_title}
               IN  rows # {} =>
                       \E entry \in Range(reply'.summary.allocated_items) :
                           /\ entry.item_name = item.listing_title
                           /\ Len(entry.allocations) = Cardinality(rows)
                           /\ entry.total_allocated = QuantityOf(rows)
                           /\ entry.remaining = item.quantity_sold - QuantityOf(rows)]_vars

====
